---------------------------- MODULE Spec2Model ----------------------------
(***************************************************************************)
(* A model of the MPEG audio frame reader of sonata-codec-mp3              *)
(* (src/sonata-codec-mp3/src/bitstream.rs): frame synchronisation and      *)
(* header parsing, Layer III side-info parsing, the bit reservoir and the  *)
(* decode_frame driver.                                                    *)
(*                                                                         *)
(* The byte source is a pull reader.  The bytes it yields are inputs: each *)
(* action that reads draws the bytes it is about to read from a bounded    *)
(* set, and src_pos counts the bytes consumed so far.                      *)
(***************************************************************************)
EXTENDS Integers, Sequences, FiniteSets, TLC

VARIABLES
    pc,            \* position of the caller: "idle", "header", "side_info", "fill", "main_data", "synth", "eof"
    src_pos,       \* number of bytes consumed from the source reader
    sync_word,     \* the 32-bit word returned by the last sync_frame
    header,        \* the FrameHeader returned by the last successful read_frame_header
    result,        \* outcome of the last call: [op, kind, msg]
    crc_bytes,     \* number of CRC bytes the last read_frame_header read
    frame_pos,     \* src_pos when the current decode_frame was entered
    frame_data,    \* FrameData of the frame being decoded
    side_info_len, \* value returned by l3_read_side_info
    si_bits,       \* bit position of the side-info BitStreamLtr when l3_read_side_info returned
    resevoir,      \* State.resevoir: [buf, len]
    prev_resevoir, \* history: the reservoir as it was when the last fill was entered
    fill_pos,      \* history: src_pos when the last fill was entered
    overlap,       \* State.overlap, per channel: the granule whose IMDCT upper half it holds
    synthesis,     \* State.synthesis, per channel: number of polyphase synthesis calls absorbed
    out,           \* the output AudioBuffer: number of frames rendered since the last clear
    n_frames,      \* number of read_frame_header calls made so far
    samples,       \* State.samples, per granule and channel: the indices of the samples that may not be zero
    intensity,     \* history: the sample indices the last l3_stereo wrote by intensity-stereo processing
    hybrid,        \* history, per channel: the l3_hybrid_synthesis calls made, [granule, overlap_in]
    sample_buf,    \* a sample buffer [f32; 576] handed to a stage called on its own (<<>> otherwise)
    main_log,      \* history: the channels the last l3_read_main_data handled, [gr, ch, begin, part2_len, huffman, part3_bits]
    input          \* header specification: the bytes in front of the reader ({} when drawn per call)

vars == <<pc, src_pos, sync_word, header, result, crc_bytes, frame_pos, frame_data,
          side_info_len, si_bits, resevoir, prev_resevoir, fill_pos, overlap,
          synthesis, out, n_frames, samples, intensity, hybrid, main_log, sample_buf,
          input>>

-----------------------------------------------------------------------------
(* Bounds of the model.                                                    *)

\* Number of frames (read_frame_header calls) in one session.
MaxFrames == 2

\* Longest run of non-sync bytes in front of a header.
MaxJunk == 1

-----------------------------------------------------------------------------
(* Integer helpers.  A u32 register is kept as its four bytes, most         *)
(* significant first, so that no value leaves the checker's integer range. *)

Pow2(n) == 2 ^ n

\* The low 24 bits of a 32-bit word.
Low24(w) == w[2] * 65536 + w[3] * 256 + w[4]

\* (w >> shift) & (2^width - 1), for fields inside the low 24 bits.
Bits(w, shift, width) == (Low24(w) \div Pow2(shift)) % Pow2(width)

\* sync.wrapping_shl(8) | byte
ShiftIn(w, byte) == <<w[2], w[3], w[4], byte>>

ZeroWord == <<0, 0, 0, 0>>

Min(a, b) == IF a < b THEN a ELSE b

-----------------------------------------------------------------------------
(* Lookup tables (0-based arrays become sequences indexed from 1).         *)

BIT_RATES_MPEG1_L1 ==
    << 0, 32000, 64000, 96000, 128000, 160000, 192000, 224000,
       256000, 288000, 320000, 352000, 384000, 416000, 448000 >>

BIT_RATES_MPEG1_L2 ==
    << 0, 32000, 48000, 56000, 64000, 80000, 96000, 112000,
       128000, 160000, 192000, 224000, 256000, 320000, 384000 >>

BIT_RATES_MPEG1_L3 ==
    << 0, 32000, 40000, 48000, 56000, 64000, 80000, 96000,
       112000, 128000, 160000, 192000, 224000, 256000, 320000 >>

BIT_RATES_MPEG2_L1 ==
    << 0, 32000, 48000, 56000, 64000, 80000, 96000, 112000,
       128000, 144000, 160000, 176000, 192000, 224000, 256000 >>

BIT_RATES_MPEG2_L23 ==
    << 0, 8000, 16000, 24000, 32000, 40000, 48000, 56000,
       64000, 80000, 96000, 112000, 128000, 144000, 160000 >>

-----------------------------------------------------------------------------
(* Results.                                                                *)

Ok(op) == [op |-> op, kind |-> "ok", msg |-> ""]

decode_error(op, msg) == [op |-> op, kind |-> "decode_error", msg |-> msg]

unsupported_error(op, msg) == [op |-> op, kind |-> "unsupported_error", msg |-> msg]

\* An error of the byte source (end of stream), propagated unchanged.
io_error(op) == [op |-> op, kind |-> "io_error", msg |-> "end of stream"]

NoResult == [op |-> "none", kind |-> "none", msg |-> ""]

-----------------------------------------------------------------------------
(* sync_frame                                                              *)

\* Variant of IsSynced: twelve one bits are asked for (0xfff00000).
IsSyncedTwelveBits(sync) == sync[1] = 255 /\ sync[2] \div 16 = 15

\* (sync & 0xffe00000) == 0xffe00000
IsSynced(sync) == sync[1] = 255 /\ sync[2] \div 32 = 7

\* The loop of sync_frame over the bytes the reader yields, from byte index i
\* (0-based) with the shift register holding sync.  Returns the word and the
\* number of bytes consumed, or the reader's error when the bytes run out.
RECURSIVE SyncLoop(_, _, _)
SyncLoop(bytes, i, sync) ==
    IF IsSynced(sync)
    THEN [err |-> FALSE, word |-> sync, n |-> i]
    ELSE IF i >= Len(bytes)
         THEN [err |-> TRUE, word |-> sync, n |-> i]
         ELSE SyncLoop(bytes, i + 1, ShiftIn(sync, bytes[i + 1]))

sync_frame(bytes) == SyncLoop(bytes, 0, ZeroWord)


-----------------------------------------------------------------------------
(* read_frame_header                                                       *)

NoHeader ==
    [version |-> "none", layer |-> "none", bitrate |-> 0, sample_rate |-> 0,
     sample_rate_idx |-> 0,
     channels |-> [mode |-> "none", ext |-> "none", mid_side |-> FALSE,
                   intensity |-> FALSE, bound |-> 0],
     emphasis |-> "none", is_copyrighted |-> FALSE, is_original |-> FALSE,
     has_padding |-> FALSE, crc |-> -1, frame_size |-> 0]

\* Variant of VersionOf: the reserved pattern 0b01 is taken as MPEG-2.
VersionOfReservedAsMpeg2(h) ==
    CASE Bits(h, 19, 2) = 0 -> "Mpeg2p5"
      [] Bits(h, 19, 2) = 3 -> "Mpeg1"
      [] OTHER              -> "Mpeg2"

\* match (header & 0x18_0000) >> 19
VersionOf(h) ==
    CASE Bits(h, 19, 2) = 0 -> "Mpeg2p5"
      [] Bits(h, 19, 2) = 2 -> "Mpeg2"
      [] Bits(h, 19, 2) = 3 -> "Mpeg1"
      [] OTHER              -> "invalid"

\* match (header & 0x6_0000) >> 17
LayerOf(h) ==
    CASE Bits(h, 17, 2) = 1 -> "Layer3"
      [] Bits(h, 17, 2) = 2 -> "Layer2"
      [] Bits(h, 17, 2) = 3 -> "Layer1"
      [] OTHER              -> "invalid"

\* Variant of BitrateArm: index 0b0000 is rejected like index 0b1111.
BitrateArmFreeInvalid(i) ==
    CASE i = 0  -> "invalid"
      [] i = 15 -> "invalid"
      [] OTHER  -> "table"

\* The first two arms of match ((header & 0xf000) >> 12, version, layer):
\* "free" and "invalid" return an error, any other index goes to the tables.
BitrateArm(i) ==
    CASE i = 0  -> "free"
      [] i = 15 -> "invalid"
      [] OTHER  -> "table"

\* The table arms of match ((header & 0xf000) >> 12, version, layer).
BitrateOf(i, version, layer) ==
    CASE version = "Mpeg1" /\ layer = "Layer1" -> BIT_RATES_MPEG1_L1[i + 1]
      [] version = "Mpeg1" /\ layer = "Layer2" -> BIT_RATES_MPEG1_L2[i + 1]
      [] version = "Mpeg1" /\ layer = "Layer3" -> BIT_RATES_MPEG1_L3[i + 1]
      [] version # "Mpeg1" /\ layer = "Layer1" -> BIT_RATES_MPEG2_L1[i + 1]
      [] OTHER                                 -> BIT_RATES_MPEG2_L23[i + 1]

\* match ((header & 0xc00) >> 10, version): <<sample_rate, sample_rate_idx>>,
\* <<0, -1>> for the arm that returns "Invalid sample rate."
SampleRateOf(i, version) ==
    CASE i = 0 /\ version = "Mpeg1"   -> <<44100, 0>>
      [] i = 1 /\ version = "Mpeg1"   -> <<48000, 1>>
      [] i = 2 /\ version = "Mpeg1"   -> <<32000, 2>>
      [] i = 0 /\ version = "Mpeg2"   -> <<22050, 3>>
      [] i = 1 /\ version = "Mpeg2"   -> <<24000, 4>>
      [] i = 2 /\ version = "Mpeg2"   -> <<16000, 5>>
      [] i = 0 /\ version = "Mpeg2p5" -> <<11025, 6>>
      [] i = 1 /\ version = "Mpeg2p5" -> <<12000, 7>>
      [] i = 2 /\ version = "Mpeg2p5" -> << 8000, 8>>
      [] OTHER                        -> <<0, -1>>

\* (1 + (header & 0x30) >> 4) << 2.  In Rust `+` binds tighter than `>>`, so
\* the expression is ((1 + (header & 0x30)) >> 4) << 2.
IntensityBound(h) == ((1 + Bits(h, 4, 2) * 16) \div 16) * 4

\* match ((header & 0xc0) >> 6, layer)
ChannelsOf(h, layer) ==
    CASE Bits(h, 6, 2) = 0 ->
            [mode |-> "Stereo", ext |-> "none", mid_side |-> FALSE,
             intensity |-> FALSE, bound |-> 0]
      [] Bits(h, 6, 2) = 2 ->
            [mode |-> "DualMono", ext |-> "none", mid_side |-> FALSE,
             intensity |-> FALSE, bound |-> 0]
      [] Bits(h, 6, 2) = 3 ->
            [mode |-> "Mono", ext |-> "none", mid_side |-> FALSE,
             intensity |-> FALSE, bound |-> 0]
      [] Bits(h, 6, 2) = 1 /\ layer = "Layer3" ->
            [mode |-> "JointStereo", ext |-> "Layer3",
             mid_side |-> (Bits(h, 5, 1) # 0),
             intensity |-> (Bits(h, 4, 1) # 0), bound |-> 0]
      [] OTHER ->
            [mode |-> "JointStereo", ext |-> "Intensity", mid_side |-> FALSE,
             intensity |-> FALSE, bound |-> IntensityBound(h)]

\* The Layer 2 channel and bit-rate combinations that are not allowed.
Layer2Check(layer, channels, bitrate) ==
    IF layer = "Layer2"
    THEN IF channels.mode = "Mono"
         THEN IF bitrate \in {224000, 256000, 320000, 384000}
              THEN "Invalid Layer 2 bitrate for mono channel mode."
              ELSE ""
         ELSE IF bitrate \in {32000, 48000, 56000, 80000}
              THEN "Invalid Layer 2 bitrate for non-mono channel mode."
              ELSE ""
    ELSE ""

\* match header & 0x3
EmphasisOf(h) ==
    CASE Bits(h, 0, 2) = 0 -> "None"
      [] Bits(h, 0, 2) = 1 -> "Fifty15"
      [] Bits(h, 0, 2) = 3 -> "CcitJ17"
      [] OTHER             -> "invalid"

\* Variant of FrameSizeCoeff: 144 for every version.
FrameSizeCoeffAll144(version) == 144

\* if version == MpegVersion::Mpeg1 { 144 } else { 72 }
FrameSizeCoeff(version) == IF version = "Mpeg1" THEN 144 ELSE 72

\* Variant of FrameSizeOf: the quotient is rounded to the nearest integer.
FrameSizeOfRounded(version, bitrate, sample_rate, has_padding, has_crc) ==
    ((2 * FrameSizeCoeff(version) * bitrate + sample_rate) \div (2 * sample_rate))
        + (IF has_padding THEN 1 ELSE 0)
        - (IF has_crc THEN 2 ELSE 0)
        - 4

\* (coeff * bitrate / sample_rate) as usize + padding - crc - 4, before the
\* usize range is applied.  The u32 product is at most 144 * 448000.
FrameSizeOf(version, bitrate, sample_rate, has_padding, has_crc) ==
    ((FrameSizeCoeff(version) * bitrate) \div sample_rate)
        + (IF has_padding THEN 1 ELSE 0)
        - (IF has_crc THEN 2 ELSE 0)
        - 4

HeaderFail(res, word, n) ==
    [res |-> res, hdr |-> NoHeader, word |-> word, n |-> n, crc_bytes |-> 0]

\* read_frame_header on a reader that yields `bytes` and then ends.  Returns
\* the result, the FrameHeader (on success), the sync word, the number of
\* bytes consumed and how many of them were CRC bytes.
read_frame_header(bytes) ==
    LET op       == "read_frame_header"
        s        == sync_frame(bytes)
        h        == s.word
        version  == VersionOf(h)
        layer    == LayerOf(h)
        bri      == Bits(h, 12, 4)
        bitrate  == BitrateOf(bri, version, layer)
        sr       == SampleRateOf(Bits(h, 10, 2), version)
        channels == ChannelsOf(h, layer)
        l2       == Layer2Check(layer, channels, bitrate)
        emphasis == EmphasisOf(h)
        has_crc  == Bits(h, 16, 1) = 0
        size     == FrameSizeOf(version, bitrate, sr[1], Bits(h, 9, 1) # 0, has_crc)
    IN  IF s.err THEN HeaderFail(io_error(op), h, s.n)
        ELSE IF version = "invalid"
             THEN HeaderFail(decode_error(op, "Invalid MPEG version."), h, s.n)
        ELSE IF layer = "invalid"
             THEN HeaderFail(decode_error(op, "Invalid MPEG layer."), h, s.n)
        ELSE IF BitrateArm(bri) = "free"
             THEN HeaderFail(unsupported_error(op, "Free bit-rate is not supported."), h, s.n)
        ELSE IF BitrateArm(bri) = "invalid"
             THEN HeaderFail(decode_error(op, "Invalid bit-rate."), h, s.n)
        ELSE IF sr[2] = -1
             THEN HeaderFail(decode_error(op, "Invalid sample rate."), h, s.n)
        ELSE IF l2 # ""
             THEN HeaderFail(decode_error(op, l2), h, s.n)
        ELSE IF emphasis = "invalid"
             THEN HeaderFail(decode_error(op, "Invalid emphasis."), h, s.n)
        ELSE IF has_crc /\ Len(bytes) < s.n + 2
             \* read_be_u16 fails; the reader has consumed what was left.
             THEN [res |-> io_error(op), hdr |-> NoHeader, word |-> h,
                   n |-> Len(bytes), crc_bytes |-> Len(bytes) - s.n]
        ELSE IF size < 0
             \* usize subtraction overflow
             THEN [res |-> [op |-> op, kind |-> "panic", msg |-> "attempt to subtract with overflow"],
                   hdr |-> NoHeader, word |-> h,
                   n |-> s.n + (IF has_crc THEN 2 ELSE 0),
                   crc_bytes |-> IF has_crc THEN 2 ELSE 0]
        ELSE [res |-> Ok(op),
              hdr |-> [version |-> version, layer |-> layer, bitrate |-> bitrate,
                       sample_rate |-> sr[1], sample_rate_idx |-> sr[2],
                       channels |-> channels, emphasis |-> emphasis,
                       is_copyrighted |-> (Bits(h, 3, 1) # 0),
                       is_original |-> (Bits(h, 2, 1) # 0),
                       has_padding |-> (Bits(h, 9, 1) # 0),
                       crc |-> IF has_crc
                               THEN bytes[s.n + 1] * 256 + bytes[s.n + 2]
                               ELSE -1,
                       frame_size |-> size],
              word |-> h,
              n |-> s.n + (IF has_crc THEN 2 ELSE 0),
              crc_bytes |-> IF has_crc THEN 2 ELSE 0]

-----------------------------------------------------------------------------
(* FrameHeader methods.                                                    *)

is_mpeg1(h) == h.version = "Mpeg1"

is_mpeg2p5(h) == h.version = "Mpeg2p5"

n_granules(h) == IF h.version = "Mpeg1" THEN 2 ELSE 1

\* Channels::count
n_channels(h) == IF h.channels.mode = "Mono" THEN 1 ELSE 2

-----------------------------------------------------------------------------
(* BitStreamLtr over the bytes the reader yields: bits are taken from each *)
(* byte most significant first, and a byte is fetched from the reader when *)
(* the first of its bits is asked for.                                     *)

\* The bit at bit position p (0-based); 0 beyond the last byte, where the
\* read itself fails (see Short).
BitAt(bytes, p) ==
    IF p \div 8 < Len(bytes)
    THEN (bytes[(p \div 8) + 1] \div Pow2(7 - (p % 8))) % 2
    ELSE 0

\* read_bits_leq32(n) at bit position p: the value read, the first bit read
\* being the most significant.
RECURSIVE read_bits_leq32(_, _, _)
read_bits_leq32(bytes, p, n) ==
    IF n = 0 THEN 0
    ELSE read_bits_leq32(bytes, p, n - 1) * 2 + BitAt(bytes, p + n - 1)

read_bit(bytes, p) == BitAt(bytes, p) = 1

\* TRUE when reading up to bit position p (exclusive) needs more bytes than
\* the reader has: the read that crosses the end returns the reader's error.
Short(bytes, p) == p > 8 * Len(bytes)

\* Bytes fetched from the reader once the bit position is p.
BytesFetched(p) == (p + 7) \div 8

-----------------------------------------------------------------------------
(* Side info.                                                              *)

\* Startng indicies of each scale factor band for long blocks, by
\* sample_rate_idx.
SCALE_FACTOR_LONG_BANDS ==
    << <<0, 4, 8, 12, 16, 20, 24, 30, 36, 44, 52, 62, 74, 90, 110, 134, 162, 196, 238, 288, 342, 418, 576>>,
       <<0, 4, 8, 12, 16, 20, 24, 30, 36, 42, 50, 60, 72, 88, 106, 128, 156, 190, 230, 276, 330, 384, 576>>,
       <<0, 4, 8, 12, 16, 20, 24, 30, 36, 44, 54, 66, 82, 102, 126, 156, 194, 240, 296, 364, 448, 550, 576>>,
       <<0, 4, 12, 18, 24, 30, 36, 44, 54, 66, 80, 96, 116, 140, 168, 200, 238, 284, 336, 396, 464, 522, 576>>,
       <<0, 6, 12, 18, 24, 30, 36, 44, 54, 66, 80, 96, 114, 136, 162, 194, 232, 278, 332, 394, 464, 540, 576>>,
       <<0, 6, 12, 18, 24, 30, 36, 44, 54, 66, 80, 96, 116, 140, 168, 200, 238, 284, 336, 396, 464, 522, 576>>,
       <<0, 6, 12, 18, 24, 30, 36, 44, 54, 66, 80, 96, 116, 140, 168, 200, 238, 284, 336, 396, 464, 522, 576>>,
       <<0, 6, 12, 18, 24, 30, 36, 44, 54, 66, 80, 96, 116, 140, 168, 200, 238, 284, 336, 396, 464, 522, 576>>,
       <<0, 12, 24, 36, 48, 60, 72, 88, 108, 132, 160, 192, 232, 280, 336, 400, 476, 566, 568, 570, 572, 574, 576>> >>

\* GranuleChannel::default
DefaultGranuleChannel ==
    [part2_3_length |-> 0, big_values |-> 0, global_gain |-> 0,
     scalefac_compress |-> 0, block_type |-> "Long", is_mixed |-> FALSE,
     subblock_gain |-> <<0, 0, 0>>, table_select |-> <<0, 0, 0>>,
     region1_start |-> 0, region2_start |-> 0, preflag |-> FALSE,
     scalefac_scale |-> FALSE, count1table_select |-> FALSE,
     scalefacs |-> [i \in 1..39 |-> 0], rzero |-> 0]

\* FrameData::default.  granules[gr + 1][ch + 1] is granules[gr].channels[ch].
DefaultFrameData ==
    [main_data_begin |-> 0,
     scfsi |-> <<<<FALSE, FALSE, FALSE, FALSE>>, <<FALSE, FALSE, FALSE, FALSE>>>>,
     granules |-> <<<<DefaultGranuleChannel, DefaultGranuleChannel>>,
                    <<DefaultGranuleChannel, DefaultGranuleChannel>>>>]

\* match block_type_enc
BlockTypeOf(enc, is_mixed) ==
    CASE enc = 1 -> [block_type |-> "Start", is_mixed |-> FALSE]
      [] enc = 2 -> [block_type |-> "Short", is_mixed |-> is_mixed]
      [] enc = 3 -> [block_type |-> "End",   is_mixed |-> FALSE]
      [] OTHER   -> [block_type |-> "invalid", is_mixed |-> FALSE]

\* region1_start under window switching.
WindowSwitchingRegion1(h, block_type_enc, bt) ==
    IF is_mpeg2p5(h)
    THEN LET region0_count == IF bt.block_type = "Short" /\ ~bt.is_mixed
                              THEN 5 + 1 ELSE 7 + 1
         IN  SCALE_FACTOR_LONG_BANDS[h.sample_rate_idx + 1][region0_count + 1]
    ELSE IF is_mpeg1(h) \/ block_type_enc = 3
         THEN 36
         ELSE 54

\* Variant of LongRegion2: the band index wraps round the table instead of
\* being clamped to 576.
LongRegion2Wrapped(h, region0_1_count) ==
    SCALE_FACTOR_LONG_BANDS[h.sample_rate_idx + 1][(region0_1_count % 23) + 1]

\* region2_start without window switching: match region0_1_count
LongRegion2(h, region0_1_count) ==
    IF region0_1_count <= 22
    THEN SCALE_FACTOR_LONG_BANDS[h.sample_rate_idx + 1][region0_1_count + 1]
    ELSE 576

\* Width of the scalefac_compress field.
ScalefacCompressBits(h) == IF is_mpeg1(h) THEN 4 ELSE 9

\* Variant of BigValuesInvalid: the limit is the field's maximum.
BigValuesInvalidAbove511(big_values) == big_values > 511

\* if channel.big_values > 288
BigValuesInvalid(big_values) == big_values > 288

\* read_granule_channel_side_info_l3 with the bitstream at bit position p0.
\* Returns the error message ("" on success, "io" for the reader's error),
\* the channel and the bit position reached.
read_granule_channel_side_info_l3(bytes, p0, channel, h) ==
    LET part2_3_length == read_bits_leq32(bytes, p0, 12)
        p1  == p0 + 12
        big_values == read_bits_leq32(bytes, p1, 9)
        p2  == p1 + 9
        global_gain == read_bits_leq32(bytes, p2, 8)
        p3  == p2 + 8
        scalefac_compress == read_bits_leq32(bytes, p3, ScalefacCompressBits(h))
        p4  == p3 + ScalefacCompressBits(h)
        window_switching == read_bit(bytes, p4)
        p5  == p4 + 1
        \* window switching
        block_type_enc == read_bits_leq32(bytes, p5, 2)
        is_mixed == read_bit(bytes, p5 + 2)
        w1  == p5 + 3
        bt  == BlockTypeOf(block_type_enc, is_mixed)
        w_table_select == <<read_bits_leq32(bytes, w1, 5),
                            read_bits_leq32(bytes, w1 + 5, 5),
                            channel.table_select[3]>>
        w2  == w1 + 10
        w_subblock_gain == <<read_bits_leq32(bytes, w2, 3),
                             read_bits_leq32(bytes, w2 + 3, 3),
                             read_bits_leq32(bytes, w2 + 6, 3)>>
        w3  == w2 + 9
        \* no window switching
        l_table_select == <<read_bits_leq32(bytes, p5, 5),
                            read_bits_leq32(bytes, p5 + 5, 5),
                            read_bits_leq32(bytes, p5 + 10, 5)>>
        l1  == p5 + 15
        region0_count == read_bits_leq32(bytes, l1, 4) + 1
        region0_1_count == read_bits_leq32(bytes, l1 + 4, 3) + region0_count + 1
        l2  == l1 + 7
        \* common tail
        p6  == IF window_switching THEN w3 ELSE l2
        p7  == IF is_mpeg1(h) THEN p6 + 1 ELSE p6
        preflag == IF is_mpeg1(h) THEN read_bit(bytes, p6)
                   ELSE scalefac_compress >= 500
        scalefac_scale == read_bit(bytes, p7)
        count1table_select == read_bit(bytes, p7 + 1)
        p8  == p7 + 2
        head == [channel EXCEPT !.part2_3_length = part2_3_length,
                                !.big_values = big_values]
    IN  IF Short(bytes, p2)
        THEN [err |-> "io", ch |-> head, p |-> 8 * Len(bytes)]
        ELSE IF BigValuesInvalid(big_values)
        THEN [err |-> "Granule big_values > 288.", ch |-> head, p |-> p2]
        ELSE IF window_switching /\ ~Short(bytes, w1) /\ bt.block_type = "invalid"
        THEN [err |-> "Invalid block_type.", ch |-> head, p |-> w1]
        ELSE IF Short(bytes, p8)
        THEN [err |-> "io", ch |-> head, p |-> 8 * Len(bytes)]
        ELSE [err |-> "",
              ch |-> [part2_3_length |-> part2_3_length,
                      big_values |-> big_values,
                      global_gain |-> global_gain,
                      scalefac_compress |-> scalefac_compress,
                      block_type |-> IF window_switching THEN bt.block_type ELSE "Long",
                      is_mixed |-> IF window_switching THEN bt.is_mixed ELSE FALSE,
                      subblock_gain |-> IF window_switching THEN w_subblock_gain
                                        ELSE channel.subblock_gain,
                      table_select |-> IF window_switching THEN w_table_select
                                       ELSE l_table_select,
                      region1_start |->
                          IF window_switching
                          THEN WindowSwitchingRegion1(h, block_type_enc, bt)
                          ELSE SCALE_FACTOR_LONG_BANDS[h.sample_rate_idx + 1][region0_count + 1],
                      region2_start |->
                          IF window_switching THEN 576
                          ELSE LongRegion2(h, region0_1_count),
                      preflag |-> preflag,
                      scalefac_scale |-> scalefac_scale,
                      count1table_select |-> count1table_select,
                      scalefacs |-> channel.scalefacs, rzero |-> channel.rzero],
              p |-> p8]

\* The loops of l3_read_side_info and read_granule_side_info_l3: granules in
\* order, and within a granule its channels in order; k counts the
\* (granule, channel) pairs already read.  The first error ends the loops.
RECURSIVE ReadGranules(_, _, _, _, _)

\* What follows the k-th call of read_granule_channel_side_info_l3, which
\* returned r.
AfterChannel(bytes, r, fd, h, k) ==
    LET gr  == k \div n_channels(h)
        ch  == k % n_channels(h)
        fd2 == [fd EXCEPT !.granules[gr + 1][ch + 1] = r.ch]
    IN  IF r.err # ""
        THEN [err |-> r.err, fd |-> fd2, p |-> r.p]
        ELSE ReadGranules(bytes, r.p, fd2, h, k + 1)

ReadGranules(bytes, p, fd, h, k) ==
    IF k >= n_granules(h) * n_channels(h)
    THEN [err |-> "", fd |-> fd, p |-> p]
    ELSE AfterChannel(
            bytes,
            read_granule_channel_side_info_l3(
                bytes, p,
                fd.granules[(k \div n_channels(h)) + 1][(k % n_channels(h)) + 1], h),
            fd, h, k)

\* Width of main_data_begin.
MainDataBeginBits(h) == IF is_mpeg1(h) THEN 9 ELSE 8

\* Variant of PrivateBits: the MPEG-1 widths for every version.
PrivateBitsMpeg1Only(h) == IF h.channels.mode = "Mono" THEN 5 ELSE 3

\* Number of private bits ignored after main_data_begin.
PrivateBits(h) ==
    IF is_mpeg1(h)
    THEN (IF h.channels.mode = "Mono" THEN 5 ELSE 3)
    ELSE (IF h.channels.mode = "Mono" THEN 1 ELSE 2)

\* Number of SCFSI bits: four per channel, MPEG version 1 only.
ScfsiBits(h) == IF is_mpeg1(h) THEN 4 * n_channels(h) ELSE 0

\* The size of the side_info, fixed for layer 3.
SideInfoLen(h) ==
    IF is_mpeg1(h)
    THEN (IF h.channels.mode = "Mono" THEN 17 ELSE 32)
    ELSE (IF h.channels.mode = "Mono" THEN 9 ELSE 17)

\* The value of l3_read_side_info once the granules are read with outcome g.
SideInfoResult(g, h) ==
    [err |-> g.err, fd |-> g.fd, p |-> g.p,
     side_info_len |-> IF g.err = "" THEN SideInfoLen(h) ELSE 0]

\* l3_read_side_info with a fresh BitStreamLtr on a reader that yields `bytes`
\* and then ends.  Returns the error ("" on success), the FrameData, the bit
\* position reached and the side_info length returned.
l3_read_side_info(bytes, h) ==
    LET main_data_begin == read_bits_leq32(bytes, 0, MainDataBeginBits(h))
        p1 == MainDataBeginBits(h)
        p2 == p1 + PrivateBits(h)
        scfsi == [c \in 1..2 |->
                    [i \in 1..4 |->
                        IF is_mpeg1(h) /\ c <= n_channels(h)
                        THEN read_bit(bytes, p2 + 4 * (c - 1) + (i - 1))
                        ELSE FALSE]]
        p3 == p2 + ScfsiBits(h)
        fd == [DefaultFrameData EXCEPT !.main_data_begin = main_data_begin,
                                       !.scfsi = scfsi]
    IN  IF Short(bytes, p3)
        THEN [err |-> "io", fd |-> fd, p |-> 8 * Len(bytes), side_info_len |-> 0]
        ELSE SideInfoResult(ReadGranules(bytes, p3, fd, h, 0), h)

-----------------------------------------------------------------------------
(* BitResevoir                                                             *)

\* Size of the reservoir buffer in bytes.
ResevoirSize == 2048

\* The buffer is kept as the sequence of its bytes up to the highest index
\* written so far; every byte beyond it still has its initial value 0.
\* buf[i] of the code is BufAt(buf, i).
BufAt(buf, i) == IF i < Len(buf) THEN buf[i + 1] ELSE 0

\* buf[i] = v
BufSet(buf, i, v) ==
    [k \in 1..(IF i + 1 > Len(buf) THEN i + 1 ELSE Len(buf)) |->
        IF k = i + 1 THEN v ELSE BufAt(buf, k - 1)]

\* BitResevoir::new
NewResevoir == [buf |-> <<>>, len |-> 0]

\* Variant of ShiftLoop: the bytes are copied from the highest index down.
RECURSIVE ShiftLoopBackward(_, _, _, _)
ShiftLoopBackward(buf, i, main_data_begin, prev) ==
    IF i >= main_data_begin
    THEN buf
    ELSE LET j == main_data_begin - 1 - i
         IN  ShiftLoopBackward(BufSet(buf, j, BufAt(buf, prev + j)), i + 1,
                               main_data_begin, prev)

\* for i in 0..main_data_begin { self.buf[i] = self.buf[prev + i]; }
\* run byte by byte in index order, from index i.
RECURSIVE ShiftLoop(_, _, _, _)
ShiftLoop(buf, i, main_data_begin, prev) ==
    IF i >= main_data_begin
    THEN buf
    ELSE ShiftLoop(BufSet(buf, i, BufAt(buf, prev + i)), i + 1, main_data_begin, prev)

\* reader.read_buf_bytes(&mut buf[from..from + Len(bytes)])
BufStore(buf, from, bytes) ==
    [k \in 1..(IF from + Len(bytes) > Len(buf) THEN from + Len(bytes) ELSE Len(buf)) |->
        IF k - 1 >= from /\ k - 1 < from + Len(bytes)
        THEN bytes[k - from]
        ELSE BufAt(buf, k - 1)]

\* Variant of InvalidBegin: the offset is never rejected.
InvalidBeginNever(main_data_begin, len) == FALSE

\* if main_data_begin > self.len
InvalidBegin(main_data_begin, len) == main_data_begin > len

\* BitResevoir::fill on a reader that yields `bytes` and then ends.  Returns
\* the result, the reservoir afterwards and the number of bytes read.
fill(res, bytes, main_data_begin, main_data_size) ==
    LET op  == "fill"
        prev == res.len - main_data_begin
        shifted == ShiftLoop(res.buf, 0, main_data_begin, prev)
        main_data_end == main_data_begin + main_data_size
    IN  IF InvalidBegin(main_data_begin, res.len)
        THEN [res |-> decode_error(op, "Invalid main_data_begin offset."),
              resevoir |-> res, n |-> 0]
        ELSE IF prev < 0
        \* usize subtraction overflow in self.len - main_data_begin
        THEN [res |-> [op |-> op, kind |-> "panic", msg |-> "attempt to subtract with overflow"],
              resevoir |-> res, n |-> 0]
        ELSE IF main_data_end > ResevoirSize
        \* the slice buf[main_data_begin..main_data_end] is out of range
        THEN [res |-> [op |-> op, kind |-> "panic", msg |-> "range end index out of range"],
              resevoir |-> [res EXCEPT !.buf = shifted], n |-> 0]
        ELSE IF Len(bytes) < main_data_size
        \* read_buf_bytes fails: the reader ran out; what it had is consumed
        \* and stored, the valid length is not updated.
        THEN [res |-> io_error(op),
              resevoir |-> [res EXCEPT !.buf = BufStore(shifted, main_data_begin, bytes)],
              n |-> Len(bytes)]
        ELSE [res |-> Ok(op),
              resevoir |-> [buf |-> BufStore(shifted, main_data_begin,
                                             SubSeq(bytes, 1, main_data_size)),
                            len |-> main_data_end],
              n |-> main_data_size]

\* BitResevoir::fill as far as the valid length goes, on a reader that has
\* avail bytes left: the kind of its result and the length afterwards.
FillLength(len, main_data_begin, main_data_size, avail) ==
    IF InvalidBegin(main_data_begin, len)
    THEN [kind |-> "decode_error", len |-> len]
    ELSE IF main_data_begin + main_data_size > ResevoirSize
    \* the slice buf[main_data_begin..main_data_end] is out of range
    THEN [kind |-> "panic", len |-> len]
    ELSE IF avail < main_data_size
    THEN [kind |-> "io_error", len |-> len]
    ELSE [kind |-> "ok", len |-> main_data_begin + main_data_size]

-----------------------------------------------------------------------------
(* l3_read_huffman_samples.  The Huffman tables and the bit reader are not *)
(* in this file: the coded bits are given as the codewords the reader      *)
(* finds in them, each [value, code_len], and every other bit read is      *)
(* counted against the bits the reader has.  An unsigned integer that      *)
(* wrapped round zero is kept as the negative number it is congruent to    *)
(* (2^64 - 2 as -2): as an unsigned value it is above every index.         *)

\* HUFFMAN_TABLES[t].huff_table.data.is_empty(): tables 0, 4 and 14 are
\* HUFFMAN_TABLE_0.
TableIsEmpty(t) == t \in {0, 4, 14}

\* HUFFMAN_TABLES[t].linbits
Linbits(t) ==
    << 0, 0, 0, 0, 0, 0, 0, 0, 0, 0, 0, 0, 0, 0, 0, 0,
       1, 2, 3, 4, 6, 8, 10, 13, 4, 5, 6, 7, 8, 9, 11, 13 >>[t + 1]

\* count1_table.n_table_bits of QUADS_HUFFMAN_TABLE_B (TRUE) and _A (FALSE).
n_table_bits(count1table_select) == IF count1table_select THEN 4 ELSE 6

\* The state of the decoder: sample index i, bits_read, the number k of
\* codewords decoded, the sample buffer and the error met ("" for none);
\* over tells that part3_bits - bits_read overflowed in the big_values loop.
HuffmanStart(buf) ==
    [i |-> 0, bits_read |-> 0, k |-> 0, buf |-> buf, err |-> "", over |-> FALSE]

HuffmanFail(st, e) == [st EXCEPT !.err = e]

\* bs.read_huffman(table, budget): the next codeword; an error when it is
\* longer than the budget, or than the bits the reader has.  A budget that
\* wrapped round is above every code length.
read_huffman(bs, st, budget) ==
    LET c == bs.codes[(st.k % Len(bs.codes)) + 1]
    IN  IF budget >= 0 /\ c.code_len > budget
        THEN [err |-> "budget", value |-> 0, code_len |-> 0]
        ELSE IF st.bits_read + c.code_len > bs.avail
        THEN [err |-> "io", value |-> 0, code_len |-> 0]
        ELSE [err |-> "", value |-> c.value, code_len |-> c.code_len]

\* One sample x or y of a big_values pair: a sample that is not zero reads
\* its linbits when it is saturated, and its sign bit.
BigValueSample(bs, st, v, linbits) ==
    IF st.err # "" THEN st
    ELSE IF v > 0
    THEN LET n == (IF v = 15 /\ linbits > 0 THEN linbits ELSE 0) + 1
         IN  IF st.bits_read + n > bs.avail
             THEN HuffmanFail(st, "io")
             ELSE [st EXCEPT !.buf = @ \cup {st.i}, !.bits_read = @ + n, !.i = @ + 1]
    ELSE [st EXCEPT !.buf = @ \ {st.i}, !.i = @ + 1]

\* The body of `while i < *region_end { ... }` for a region whose table is
\* not empty.  part3_bits - bits_read is a u32 subtraction: the build with
\* overflow checks panics when it overflows, the build without them wraps
\* round.
BigValuesTurn(bs, part3_bits, st, table) ==
    IF st.bits_read > part3_bits /\ ~bs.wrapping
    THEN [HuffmanFail(st, "panic") EXCEPT !.over = TRUE]
    ELSE LET c == read_huffman(bs, st, part3_bits - st.bits_read)
             s0 == [st EXCEPT !.over = @ \/ st.bits_read > part3_bits]
         IN  IF c.err # "" THEN HuffmanFail(s0, c.err)
             ELSE BigValueSample(bs,
                      BigValueSample(bs,
                          [s0 EXCEPT !.bits_read = @ + c.code_len, !.k = @ + 1],
                          c.value \div 16, Linbits(table)),
                      c.value % 16, Linbits(table))

\* while i < *region_end { ... }: the loop, which takes `turns` turns at
\* most (each turn advances i by two), as its first and its second half.
RECURSIVE BigValues(_, _, _, _, _, _)
BigValues(bs, part3_bits, st, table, region_end, turns) ==
    IF st.err # "" \/ st.i >= region_end THEN st
    ELSE IF turns <= 1 THEN BigValuesTurn(bs, part3_bits, st, table)
    ELSE BigValues(bs, part3_bits,
                   BigValues(bs, part3_bits, st, table, region_end, turns \div 2),
                   table, region_end, turns - (turns \div 2))

\* while i < *region_end { buf[i] = 0.0; i += 1; buf[i] = 0.0; i += 1; }
ZeroPairs(st, region_end) ==
    IF st.i >= region_end THEN st
    ELSE LET n == ((region_end - st.i + 1) \div 2) * 2
         IN  [st EXCEPT !.buf = @ \ (st.i .. st.i + n - 1), !.i = @ + n]

\* for (region_idx, region_end) in regions.iter().enumerate() { ... }
RECURSIVE HuffmanRegions(_, _, _, _, _)
HuffmanRegions(bs, channel, part3_bits, st, region_idx) ==
    IF region_idx > 2 \/ st.err # "" THEN st
    ELSE LET big_values_len == 2 * channel.big_values
             region_end == Min(<<channel.region1_start, channel.region2_start,
                                 576>>[region_idx + 1], big_values_len)
             table == channel.table_select[region_idx + 1]
         IN  HuffmanRegions(bs, channel, part3_bits,
                 IF TableIsEmpty(table) THEN ZeroPairs(st, region_end)
                 ELSE BigValues(bs, part3_bits, st, table, region_end, 576 \div 2),
                 region_idx + 1)

\* One sample v, w, x or y of a count1 quadruple.
Count1Sample(bs, st, bit) ==
    IF st.err # "" THEN st
    ELSE IF bit # 0
    THEN IF st.bits_read + 1 > bs.avail
         THEN HuffmanFail(st, "io")
         ELSE [st EXCEPT !.buf = @ \cup {st.i}, !.bits_read = @ + 1, !.i = @ + 1]
    ELSE [st EXCEPT !.buf = @ \ {st.i}, !.i = @ + 1]

\* The body of `while i <= 572 && bits_read < part3_bits { ... }`.
Count1Turn(bs, part3_bits, st, count1table_select) ==
    LET c == read_huffman(bs, st, part3_bits + n_table_bits(count1table_select)
                                  - st.bits_read)
    IN  IF c.err # "" THEN HuffmanFail(st, c.err)
        ELSE Count1Sample(bs,
               Count1Sample(bs,
                 Count1Sample(bs,
                   Count1Sample(bs,
                     [st EXCEPT !.bits_read = @ + c.code_len, !.k = @ + 1],
                     (c.value \div 8) % 2),
                   (c.value \div 4) % 2),
                 (c.value \div 2) % 2),
               c.value % 2)

\* while i <= 572 && bits_read < part3_bits { ... }: the loop, which takes
\* `turns` turns at most (each turn advances i by four), as its first and
\* its second half.
RECURSIVE Count1(_, _, _, _, _)
Count1(bs, part3_bits, st, count1table_select, turns) ==
    IF st.err # "" \/ ~(st.i <= 572 /\ st.bits_read < part3_bits) THEN st
    ELSE IF turns <= 1 THEN Count1Turn(bs, part3_bits, st, count1table_select)
    ELSE Count1(bs, part3_bits,
                Count1(bs, part3_bits, st, count1table_select, turns \div 2),
                count1table_select, turns - (turns \div 2))

\* for j in (i..576).step_by(2) { buf[j+0] = 0.0; buf[j+1] = 0.0; } and Ok(i).
\* The range is empty when i wrapped round; from an odd i the last j is 575.
RzeroFill(st, i) ==
    IF i >= 0 /\ i < 576 /\ i % 2 = 1
    THEN [err |-> "panic", rzero |-> 0, buf |-> st.buf \ (i .. 575)]
    ELSE [err |-> "", rzero |-> i,
          buf |-> IF i >= 0 THEN st.buf \ (i .. 575) ELSE st.buf]

\* The end of l3_read_huffman_samples: the stuffing bits are skipped, or the
\* last four samples of a count1 overrun are unwound (i -= 4, a usize
\* subtraction), and the rzero partition is zeroed.
HuffmanEnd(bs, part3_bits, st) ==
    IF st.err # "" THEN [err |-> st.err, rzero |-> 0, buf |-> st.buf]
    ELSE IF st.bits_read < part3_bits
    THEN IF part3_bits > bs.avail
         THEN [err |-> "io", rzero |-> 0, buf |-> st.buf]
         ELSE RzeroFill(st, st.i)
    ELSE IF st.bits_read > part3_bits
    THEN IF st.i < 4 /\ ~bs.wrapping
         THEN [err |-> "panic", rzero |-> 0, buf |-> st.buf]
         ELSE RzeroFill(st, st.i - 4)
    ELSE RzeroFill(st, st.i)

\* l3_read_huffman_samples(bs, channel, part3_bits, buf): [err, rzero, buf],
\* rzero being the value returned with Ok.
l3_read_huffman_samples(bs, channel, part3_bits, buf) ==
    IF part3_bits = 0
    THEN [err |-> "", rzero |-> 0, buf |-> {}]
    ELSE HuffmanEnd(bs, part3_bits,
            Count1(bs, part3_bits,
                   HuffmanRegions(bs, channel, part3_bits, HuffmanStart(buf), 0),
                   channel.count1table_select, 576 \div 4))

\* The Result of a call of op that ended with err.
ResultOf(op, err) ==
    CASE err = ""       -> Ok(op)
      [] err = "io"     -> io_error(op)
      [] err = "panic"  -> [op |-> op, kind |-> "panic", msg |-> "arithmetic overflow"]
      [] err = "slice"  -> [op |-> op, kind |-> "panic", msg |-> "slice index out of range"]
      [] err = "budget" -> decode_error(op, "huffman code exceeds the bits left")
      [] OTHER          -> decode_error(op, err)

-----------------------------------------------------------------------------
(* Main data: scale factors and l3_read_main_data.  The bit reader of a    *)
(* channel is given by the main-data bytes and its bit position p.         *)

\* FrameHeader::is_intensity_stereo
is_intensity_stereo(h) ==
    CASE h.channels.mode = "JointStereo" /\ h.channels.ext = "Layer3" -> h.channels.intensity
      [] h.channels.mode = "JointStereo" -> TRUE
      [] OTHER -> FALSE

\* (slen1, slen2) by scalefac_compress.
SCALE_FACTOR_SLEN ==
    << <<0, 0>>, <<0, 1>>, <<0, 2>>, <<0, 3>>, <<3, 0>>, <<1, 1>>, <<1, 2>>, <<1, 3>>,
       <<2, 1>>, <<2, 2>>, <<2, 3>>, <<3, 1>>, <<3, 2>>, <<3, 3>>, <<4, 2>>, <<4, 3>> >>

\* Number of scale factors of each of the four lengths, by sub-table and
\* block_index.
SCALE_FACTOR_MPEG2_NSFB ==
    << << <<7, 7, 7, 0>>, <<12, 12, 12, 0>>, <<6, 15, 12, 0>> >>,
       << <<6, 6, 6, 3>>, <<12, 9, 9, 6>>, <<6, 12, 9, 6>> >>,
       << <<8, 8, 5, 0>>, <<15, 12, 9, 0>>, <<6, 18, 9, 0>> >>,
       << <<6, 5, 5, 5>>, <<9, 9, 9, 9>>, <<6, 9, 9, 9>> >>,
       << <<6, 5, 7, 3>>, <<9, 9, 12, 6>>, <<6, 9, 12, 6>> >>,
       << <<11, 10, 0, 0>>, <<18, 18, 0, 0>>, <<15, 18, 0, 0>> >> >>

\* The scale factor band ranges SCFSI applies to.
SCALE_FACTOR_BANDS == << <<0, 6>>, <<6, 11>>, <<11, 16>>, <<16, 21>> >>

\* for sfb in start..end { scalefacs[sfb] = bs.read_bits_leq32(slen)? as u8; }
\* on st = [err, scalefacs, p, bits_read]; bits_read is left to the caller.
RECURSIVE ReadScalefacs(_, _, _, _, _)
ReadScalefacs(bytes, st, sfb, end, slen) ==
    IF st.err # "" \/ sfb >= end THEN st
    ELSE IF Short(bytes, st.p + slen) THEN [st EXCEPT !.err = "io"]
    ELSE ReadScalefacs(bytes,
            [st EXCEPT !.scalefacs[sfb + 1] = read_bits_leq32(bytes, st.p, slen) % 256,
                       !.p = @ + slen],
            sfb + 1, end, slen)

\* if slen > 0 { read n scale factors from index start; bits_read += n * slen }
ReadScalefacRun(bytes, st, start, n, slen) ==
    IF st.err # "" \/ slen = 0 THEN st
    ELSE LET r == ReadScalefacs(bytes, st, start, start + n, slen)
         IN  IF r.err # "" THEN r ELSE [r EXCEPT !.bits_read = @ + n * slen]

\* The long-block arm of l3_read_scale_factors_mpeg1, from range i on.
\* granule0 is the scalefacs of granules[0].channels[ch].
RECURSIVE Mpeg1LongRanges(_, _, _, _, _, _, _, _)
Mpeg1LongRanges(bytes, st, i, gr, scfsi, granule0, slen1, slen2) ==
    IF i >= 4 \/ st.err # "" THEN st
    ELSE LET start == SCALE_FACTOR_BANDS[i + 1][1]
             end == SCALE_FACTOR_BANDS[i + 1][2]
             slen == IF i < 2 THEN slen1 ELSE slen2
             next == IF slen > 0
                     THEN IF gr > 0 /\ scfsi[i + 1]
                          THEN [st EXCEPT !.scalefacs =
                                   [k \in 1..39 |-> IF k - 1 >= start /\ k - 1 < end
                                                    THEN granule0[k] ELSE @[k]]]
                          ELSE ReadScalefacRun(bytes, st, start, end - start, slen)
                     ELSE st
         IN  Mpeg1LongRanges(bytes, next, i + 1, gr, scfsi, granule0, slen1, slen2)

\* l3_read_scale_factors_mpeg1(bs, gr, ch, frame_data): [err, scalefacs, p,
\* bits_read], scalefacs being those of granules[gr].channels[ch] afterwards.
l3_read_scale_factors_mpeg1(bytes, p0, gr, ch, fd) ==
    LET channel == fd.granules[gr + 1][ch + 1]
        slen1 == SCALE_FACTOR_SLEN[channel.scalefac_compress + 1][1]
        slen2 == SCALE_FACTOR_SLEN[channel.scalefac_compress + 1][2]
        st0 == [err |-> "", scalefacs |-> channel.scalefacs, p |-> p0, bits_read |-> 0]
    IN  IF channel.block_type = "Short"
        THEN LET n_sfb == IF channel.is_mixed THEN 8 + 3 * 3 ELSE 6 * 3
             IN  ReadScalefacRun(bytes, ReadScalefacRun(bytes, st0, 0, n_sfb, slen1),
                                 n_sfb, 6 * 3, slen2)
        ELSE Mpeg1LongRanges(bytes, st0, 0, gr, fd.scfsi[ch + 1],
                             fd.granules[1][ch + 1].scalefacs, slen1, slen2)

\* match channel.block_type of l3_read_scale_factors_mpeg2
BlockIndex(channel) ==
    IF channel.block_type = "Short" THEN (IF channel.is_mixed THEN 2 ELSE 1) ELSE 0

\* Variant of Mpeg2Slen: the scale factor lengths of the intensity-stereo
\* sub-tables whatever the channel mode.
Mpeg2SlenIntensityOnly(is_intensity_stereo_ch, scalefac_compress) ==
    LET sfc == scalefac_compress \div 2
    IN  CASE sfc <= 179 -> [slen |-> <<sfc \div 36, (sfc % 36) \div 6, (sfc % 36) % 6, 0>>,
                            table |-> IF is_intensity_stereo_ch THEN 0 ELSE 3]
          [] sfc <= 243 -> [slen |-> <<((sfc - 180) % 64) \div 16,
                                       ((sfc - 180) % 16) \div 4, (sfc - 180) % 4, 0>>,
                            table |-> IF is_intensity_stereo_ch THEN 1 ELSE 4]
          [] OTHER      -> [slen |-> <<(sfc - 244) \div 3, (sfc - 244) % 3, 0, 0>>,
                            table |-> IF is_intensity_stereo_ch THEN 2 ELSE 5]

\* (slen_table, nsfb_table) of l3_read_scale_factors_mpeg2: the four scale
\* factor lengths and the index of the SCALE_FACTOR_MPEG2_NSFB sub-table.
Mpeg2Slen(is_intensity_stereo_ch, scalefac_compress) ==
    IF is_intensity_stereo_ch
    THEN LET sfc == scalefac_compress \div 2
         IN  CASE sfc <= 179 -> [slen |-> <<sfc \div 36, (sfc % 36) \div 6,
                                            (sfc % 36) % 6, 0>>, table |-> 0]
               [] sfc <= 243 -> [slen |-> <<((sfc - 180) % 64) \div 16,
                                            ((sfc - 180) % 16) \div 4,
                                            (sfc - 180) % 4, 0>>, table |-> 1]
               [] OTHER      -> [slen |-> <<(sfc - 244) \div 3, (sfc - 244) % 3, 0, 0>>,
                                 table |-> 2]
    ELSE LET sfc == scalefac_compress
         IN  CASE sfc <= 399 -> [slen |-> <<(sfc \div 16) \div 5, (sfc \div 16) % 5,
                                            (sfc % 16) \div 4, sfc % 4>>, table |-> 3]
               [] sfc <= 499 -> [slen |-> <<((sfc - 400) \div 4) \div 5,
                                            ((sfc - 400) \div 4) % 5,
                                            (sfc - 400) % 4, 0>>, table |-> 4]
               [] OTHER      -> [slen |-> <<(sfc - 500) \div 3, (sfc - 500) % 3, 0, 0>>,
                                 table |-> 5]

\* for (&slen, &n_sfb) in slen_table.iter().zip(nsfb_table.iter()) { ... }
RECURSIVE Mpeg2Runs(_, _, _, _, _, _)
Mpeg2Runs(bytes, st, j, start, slen_table, nsfb_table) ==
    IF j > 4 \/ st.err # "" THEN st
    ELSE Mpeg2Runs(bytes,
                   ReadScalefacRun(bytes, st, start, nsfb_table[j], slen_table[j]),
                   j + 1, start + nsfb_table[j], slen_table, nsfb_table)

\* l3_read_scale_factors_mpeg2(bs, is_intensity_stereo, channel)
l3_read_scale_factors_mpeg2(bytes, p0, is_intensity_stereo_ch, channel) ==
    LET t == Mpeg2Slen(is_intensity_stereo_ch, channel.scalefac_compress)
    IN  Mpeg2Runs(bytes,
                  [err |-> "", scalefacs |-> channel.scalefacs, p |-> p0, bits_read |-> 0],
                  1, 0, t.slen,
                  SCALE_FACTOR_MPEG2_NSFB[t.table + 1][BlockIndex(channel) + 1])

\* let part2_len = if header.is_mpeg1() { ... } else { ... }
ReadScaleFactors(h, bytes, p0, gr, ch, fd) ==
    IF is_mpeg1(h)
    THEN l3_read_scale_factors_mpeg1(bytes, p0, gr, ch, fd)
    ELSE l3_read_scale_factors_mpeg2(bytes, p0, ch > 0 /\ is_intensity_stereo(h),
                                     fd.granules[gr + 1][ch + 1])

\* BitResevoir::bytes_ref
bytes_ref(res) == [k \in 1..res.len |-> BufAt(res.buf, k - 1)]

\* Variant of Part2LenInvalid: scale factors that take the whole of
\* part2_3_length are rejected as well.
Part2LenInvalidOrEqual(part2_len, part2_3_length) == part2_len >= part2_3_length

\* if part2_len > part2_3_length
Part2LenInvalid(part2_len, part2_3_length) == part2_len > part2_3_length

\* Variant of NextPart23Begin: the next channel starts at a whole byte.
NextPart23BeginByteAligned(part2_3_begin, part2_3_length) ==
    ((part2_3_begin + part2_3_length + 7) \div 8) * 8

\* part2_3_begin += part2_3_length as usize
NextPart23Begin(part2_3_begin, part2_3_length) == part2_3_begin + part2_3_length

\* channel.rzero = l3_read_huffman_samples(...)?; part2_3_begin +=
\* part2_3_length, r being what l3_read_huffman_samples returned.
AfterHuffman(st, fd, gr, ch, entry, part2_3_length, r) ==
    [err |-> r.err,
     fd |-> IF r.err = ""
            THEN [fd EXCEPT !.granules[gr + 1][ch + 1].rzero = r.rzero]
            ELSE fd,
     samples |-> [st.samples EXCEPT ![gr + 1][ch + 1] = r.buf],
     part2_3_begin |-> NextPart23Begin(st.part2_3_begin, part2_3_length),
     log |-> Append(st.log, entry)]

\* The body of the channel loop of l3_read_main_data after the scale factors
\* sf were read.  st is [err, fd, samples, part2_3_begin, log]; bs gives the
\* main-data bytes, the codewords the Huffman reader finds and the build.
MainDataChannel(bs, st, gr, ch, sf) ==
    LET fd == [st.fd EXCEPT !.granules[gr + 1][ch + 1].scalefacs = sf.scalefacs]
        part2_len == sf.bits_read
        part2_3_length == st.fd.granules[gr + 1][ch + 1].part2_3_length
        part3_len == part2_3_length - part2_len
        entry == [gr |-> gr, ch |-> ch, part2_len |-> part2_len,
                  begin |-> st.part2_3_begin]
    IN  IF sf.err # "" THEN [st EXCEPT !.err = sf.err, !.fd = fd]
        ELSE IF Part2LenInvalid(part2_len, part2_3_length)
        THEN [st EXCEPT !.err = "part2_3_length is not valid", !.fd = fd,
                        !.log = Append(@, entry @@ [huffman |-> FALSE, part3_bits |-> 0])]
        ELSE AfterHuffman(st, fd, gr, ch,
                          entry @@ [huffman |-> TRUE, part3_bits |-> part3_len],
                          part2_3_length,
                          l3_read_huffman_samples(
                              [codes |-> bs.codes, wrapping |-> bs.wrapping,
                               avail |-> 8 * Len(bs.bytes) - sf.p],
                              fd.granules[gr + 1][ch + 1], part3_len,
                              st.samples[gr + 1][ch + 1]))

\* for gr in 0..header.n_granules() { for ch in 0..header.n_channels() { ... } }
\* from the k-th channel on.  The reader of a channel starts at bit
\* part2_3_begin of the main data: slicing past its end panics, skipping
\* bit_index bits of a byte that is not there is the reader's error.
RECURSIVE MainDataChannels(_, _, _, _)
MainDataChannels(h, bs, st, k) ==
    IF k >= n_granules(h) * n_channels(h) \/ st.err # "" THEN st
    ELSE LET gr == k \div n_channels(h)
             ch == k % n_channels(h)
             byte_index == st.part2_3_begin \div 8
             bit_index == st.part2_3_begin % 8
         IN  IF byte_index > Len(bs.bytes) THEN [st EXCEPT !.err = "panic"]
             ELSE IF bit_index > 0 /\ byte_index = Len(bs.bytes)
             THEN [st EXCEPT !.err = "io"]
             ELSE MainDataChannels(h, bs,
                     MainDataChannel(bs, st, gr, ch,
                         ReadScaleFactors(h, bs.bytes, st.part2_3_begin, gr, ch, st.fd)),
                     k + 1)

\* l3_read_main_data(header, frame_data, state): [err, fd, samples,
\* part2_3_begin, log].
l3_read_main_data(h, fd, bs, smp) ==
    MainDataChannels(h, bs, [err |-> "", fd |-> fd, samples |-> smp,
                             part2_3_begin |-> 0, log |-> <<>>], 0)

-----------------------------------------------------------------------------
(* The stages of decode_frame after the reservoir is filled.  Sample values *)
(* are not modelled: of the numeric stages the model keeps which parts of   *)
(* State and of the output buffer they write, and the errors they return.   *)

\* Variant of StereoIntensity: every joint stereo frame counts as intensity
\* stereo.
StereoIntensityAnyJoint(h) == h.channels.mode = "JointStereo"

\* (mid_side, intensity) of l3_stereo: the intensity flag.
StereoIntensity(h) ==
    CASE h.channels.mode = "JointStereo" /\ h.channels.ext = "Layer3" -> h.channels.intensity
      [] h.channels.mode = "JointStereo" -> TRUE
      [] OTHER -> FALSE

\* The error check of l3_stereo on one granule ("" when it returns Ok).
l3_stereo(h, granule) ==
    IF StereoIntensity(h)
       /\ <<granule[1].block_type, granule[1].is_mixed>>
            # <<granule[2].block_type, granule[2].is_mixed>>
    THEN "stereo channel pair block_type mismatch"
    ELSE ""

\* Starting indicies of each scale factor band for short blocks, by
\* sample_rate_idx; each value is multiplied by 3 where it is used.
SCALE_FACTOR_SHORT_BANDS ==
    << <<0, 4, 8, 12, 16, 22, 30, 40, 52, 66, 84, 106, 136, 192>>,
       <<0, 4, 8, 12, 16, 22, 28, 38, 50, 64, 80, 100, 126, 192>>,
       <<0, 4, 8, 12, 16, 22, 30, 42, 58, 78, 104, 138, 180, 192>>,
       <<0, 4, 8, 12, 18, 24, 32, 42, 56, 74, 100, 132, 174, 192>>,
       <<0, 4, 8, 12, 18, 26, 36, 48, 62, 80, 104, 136, 180, 192>>,
       <<0, 4, 8, 12, 18, 26, 36, 48, 62, 80, 104, 134, 174, 192>>,
       <<0, 4, 8, 12, 18, 26, 36, 48, 62, 80, 104, 134, 174, 192>>,
       <<0, 4, 8, 12, 18, 26, 36, 48, 62, 80, 104, 134, 174, 192>>,
       <<0, 8, 16, 24, 36, 52, 72, 96, 124, 160, 162, 164, 166, 192>> >>

Max(a, b) == IF a > b THEN a ELSE b

\* (mid_side, intensity) of l3_stereo: the mid_side flag.
StereoMidSide(h) ==
    h.channels.mode = "JointStereo" /\ h.channels.ext = "Layer3" /\ h.channels.mid_side

\* bands[lo..hi].iter().map(|i| scale * i).position(|i| i >= bound): the
\* index, counted from lo, of the first element that is at least bound;
\* -1 for None.
Position(bands, lo, hi, scale, bound) ==
    LET hits == { k \in 0 .. (hi - lo - 1) : scale * bands[lo + k + 1] >= bound }
    IN  IF hits = {} THEN -1 ELSE CHOOSE k \in hits : \A j \in hits : k <= j

\* if is_pos < 7 (MPEG-1), if is_pos != 7 (MPEG-2 and MPEG-2.5)
IntensityApplies(h, is_pos) == IF is_mpeg1(h) THEN is_pos < 7 ELSE is_pos # 7

\* l3_intensity_stereo_long(header, channel, sfb_start, sfb_end, ch0, ch1):
\* the runs of `for i in start..end` it takes, one for each band sfb whose
\* position applies; in the samples first .. last of a run ch0[i] and ch1[i]
\* are written, ch0[i] = ratio_l * ch0[i].
l3_intensity_stereo_long(h, channel, sfb_start, sfb_end) ==
    LET sfb_indicies == SCALE_FACTOR_LONG_BANDS[h.sample_rate_idx + 1]
    IN  { [blocks |-> "long", sfb |-> sfb, win |-> 0,
           first |-> sfb_indicies[sfb + 1], last |-> sfb_indicies[sfb + 2] - 1] :
            sfb \in { b \in sfb_start .. (sfb_end - 1) :
                        IntensityApplies(h, channel.scalefacs[b + 1]) } }

\* l3_intensity_stereo_short(header, channel, sfb_start, ch0, ch1): the
\* runs of `for i in start..(start + win_len)` it takes, one for each
\* window win of each band sfb whose position applies.
l3_intensity_stereo_short(h, channel, sfb_start) ==
    LET sfb_indicies == SCALE_FACTOR_SHORT_BANDS[h.sample_rate_idx + 1]
        win_len(sfb) == sfb_indicies[sfb + 2] - sfb_indicies[sfb + 1]
        start(sfb, win) == 3 * sfb_indicies[sfb + 1] + win * win_len(sfb)
    IN  { [blocks |-> "short", sfb |-> w[1], win |-> w[2],
           first |-> start(w[1], w[2]),
           last |-> start(w[1], w[2]) + win_len(w[1]) - 1] :
            w \in { v \in (sfb_start .. 12) \X (0 .. 2) :
                      IntensityApplies(h, channel.scalefacs[3 * v[1] + v[2] + 1]) } }

\* match granule.channels[1].block_type { ... } of l3_stereo: the runs of
\* the intensity stereo processing of the granule.
IntensityBands(h, granule) ==
    LET channel == granule[2]
        ch1_rzero == channel.rzero
        long_indicies == SCALE_FACTOR_LONG_BANDS[h.sample_rate_idx + 1]
        short_indicies == SCALE_FACTOR_SHORT_BANDS[h.sample_rate_idx + 1]
    IN  IF channel.block_type = "Short" /\ ~channel.is_mixed
        THEN LET short_band == Position(short_indicies, 0, 13, 3, ch1_rzero)
             IN  IF short_band >= 0
                 THEN l3_intensity_stereo_short(h, channel, short_band) ELSE {}
        ELSE IF channel.block_type = "Short"
        THEN LET long_band == Position(long_indicies, 0, 8, 1, ch1_rzero)
                 short_band == Position(short_indicies, 3, 13, 3, ch1_rzero)
             IN  IF long_band >= 0
                 THEN l3_intensity_stereo_long(h, channel, long_band, 8)
                      \cup l3_intensity_stereo_short(h, channel, 3)
                 ELSE IF short_band >= 0
                 THEN l3_intensity_stereo_short(h, channel, short_band) ELSE {}
        ELSE LET long_band == Position(long_indicies, 0, 22, 1, ch1_rzero)
             IN  IF long_band >= 0
                 THEN l3_intensity_stereo_long(h, channel, long_band, 22) ELSE {}

\* The sample indices written by the intensity stereo processing of the
\* granule.
IntensityStereo(h, granule) ==
    UNION { r.first .. r.last : r \in IntensityBands(h, granule) }

\* if mid_side { ... }: the samples of the two channels below the larger
\* rzero are replaced by their sum and difference.
MidSide(granule, ch) ==
    LET below == 0 .. (Max(granule[1].rzero, granule[2].rzero) - 1)
        mixed == (ch[1] \cup ch[2]) \cap below
    IN  << (ch[1] \ below) \cup mixed, (ch[2] \ below) \cup mixed >>

\* l3_stereo(header, granule, ch) with its effect on the samples ch of the
\* granule: [err, ch, written].  Intensity processing writes
\* ch0[i] = ratio_l * ch0[i] and ch1[i] = ratio_r * ch0[i].
StereoGranule(h, granule, ch) ==
    LET ms == IF StereoMidSide(h) THEN MidSide(granule, ch) ELSE ch
        written == IntensityStereo(h, granule)
    IN  IF l3_stereo(h, granule) # ""
        THEN [err |-> l3_stereo(h, granule), ch |-> ms, written |-> {}]
        ELSE IF StereoIntensity(h)
        THEN [err |-> "",
              ch |-> << ms[1], (ms[2] \ written) \cup (ms[1] \cap written) >>,
              written |-> written]
        ELSE [err |-> "", ch |-> ms, written |-> {}]

\* l3_requantize(header, channel, buf) panics: the slices buf[..rzero] and
\* buf[36..rzero] need rzero within the buffer and, for a mixed block, at or
\* above 36; the short bands from band 3 on must cover buf[36..rzero].
RequantizePanics(h, channel) ==
    \/ channel.rzero < 0
    \/ channel.rzero > 576
    \/ /\ channel.block_type = "Short" /\ channel.is_mixed
       /\ \/ channel.rzero < 36
          \/ channel.rzero - 36
               > 3 * (192 - SCALE_FACTOR_SHORT_BANDS[h.sample_rate_idx + 1][4])

\* l3_reorder(header, channel, buf): the samples of the short bands below
\* rzero are interleaved by window, within start..i-1 where i is the end of
\* the band rzero falls in.
l3_reorder(h, channel, buf) ==
    IF channel.block_type # "Short" \/ buf = {} THEN buf
    ELSE LET sfb_bands == SCALE_FACTOR_SHORT_BANDS[h.sample_rate_idx + 1]
             start == 3 * sfb_bands[(IF channel.is_mixed THEN 3 ELSE 0) + 1]
             ends == { 3 * sfb_bands[k] : k \in 1..14 }
             i == IF channel.rzero <= start THEN start
                  ELSE CHOOSE e \in ends :
                         /\ e >= channel.rzero
                         /\ \A f \in ends : f >= channel.rzero => e <= f
             range == start .. (i - 1)
         IN  IF buf \cap range = {} THEN buf ELSE buf \cup range

\* l3_antialias(channel, samples): the butterflies across the sub-band
\* boundaries mix samples[sb - 1 - i] and samples[sb + i].
l3_antialias(channel, buf) ==
    IF (channel.block_type = "Short" /\ ~channel.is_mixed) \/ buf = {} THEN buf
    ELSE LET sb_end == IF channel.block_type = "Short" THEN 2 * 18 ELSE 32 * 18
             pairs == { <<18 * k - 1 - i, 18 * k + i>> :
                          k \in 1 .. ((sb_end \div 18) - 1), i \in 0..7 }
         IN  buf \cup UNION { IF p[1] \in buf \/ p[2] \in buf THEN {p[1], p[2]} ELSE {} :
                               p \in pairs }

\* The value of an overlap store: the granule <<frame, gr>> whose IMDCT
\* upper half it holds (<<>> for none), and whether it is all zero.
ZeroOverlap == [granule |-> <<>>, zero |-> TRUE]

\* l3_hybrid_synthesis(channel, overlap, samples) for granule id: the samples
\* become overlap + lower half of the IMDCT output, the overlap store the
\* upper half of the output.
l3_hybrid_synthesis(overlap_ch, buf, id) ==
    [samples |-> IF buf = {} /\ overlap_ch.zero THEN {} ELSE 0 .. 575,
     overlap |-> [granule |-> id, zero |-> buf = {}]]

\* Variant of OutSlice: every granule is given the first 576 positions.
OutSliceFirst(gr) == <<0, 576>>

\* &mut out_ch_samples[(gr * 576)..((gr + 1) * 576)]: the bounds of the
\* output slice handed to synthesis::synthesis for granule gr.
OutSlice(gr) == <<gr * 576, (gr + 1) * 576>>

\* Variant of OverlapIndex: both channels use the overlap store of channel 0.
OverlapIndexShared(ch) == 0

\* &mut state.overlap[ch]: the overlap store handed to l3_hybrid_synthesis
\* for channel ch.
OverlapIndex(ch) == ch

\* for ch in 0..header.n_channels() { ... } of decode_frame, from channel ch,
\* in granule gr of frame number frame: reorder, antialias, hybrid synthesis,
\* frequency inversion (sign changes only) and polyphase synthesis, which
\* advances synthesis[ch].  Each l3_hybrid_synthesis call is logged with
\* the overlap store it read, the one it left, whether the block handed to
\* the polyphase synthesis is all zero, the bounds of the output slice
\* handed to it and the number of frames the output then holds.
RECURSIVE SynthChannels(_, _, _, _, _, _)
SynthChannels(st, h, fd, frame, gr, ch) ==
    IF ch >= n_channels(h)
    THEN st
    ELSE LET channel == fd.granules[gr + 1][ch + 1]
             hs == l3_hybrid_synthesis(
                       st.overlap[OverlapIndex(ch)],
                       l3_antialias(channel,
                                    l3_reorder(h, channel, st.samples[gr + 1][ch + 1])),
                       <<frame, gr>>)
         IN  SynthChannels(
                [st EXCEPT !.overlap[OverlapIndex(ch)] = hs.overlap,
                           !.samples[gr + 1][ch + 1] = hs.samples,
                           !.synthesis[ch] = @ + 1,
                           !.hybrid[ch] = Append(@, [granule |-> <<frame, gr>>,
                                                     overlap_in |-> st.overlap[OverlapIndex(ch)],
                                                     overlap_out |-> hs.overlap,
                                                     out_slice |-> OutSlice(gr),
                                                     out_len |-> st.out,
                                                     zero |-> hs.samples = {}])],
                h, fd, frame, gr, ch + 1)

\* for gr in 0..header.n_granules() { ... } of decode_frame, from granule gr.
\* st is [err, overlap, synthesis, out, samples, intensity, hybrid].
RECURSIVE SynthGranules(_, _, _, _, _)
SynthGranules(st, h, fd, frame, gr) ==
    IF gr >= n_granules(h) \/ st.err # ""
    THEN st
    ELSE LET rendered == [st EXCEPT !.out = @ + 576]
             granule == fd.granules[gr + 1]
         IN  IF RequantizePanics(h, granule[1])
             THEN [rendered EXCEPT !.err = "slice"]
             ELSE IF h.channels.mode = "Mono"
             THEN SynthGranules(SynthChannels(rendered, h, fd, frame, gr, 0),
                                h, fd, frame, gr + 1)
             ELSE IF RequantizePanics(h, granule[2])
             THEN [rendered EXCEPT !.err = "slice"]
             ELSE LET s == StereoGranule(h, granule, rendered.samples[gr + 1])
                      stereo == [rendered EXCEPT !.err = s.err,
                                                 !.samples[gr + 1] = s.ch,
                                                 !.intensity = s.written]
                  IN  IF s.err # "" THEN stereo
                      ELSE SynthGranules(SynthChannels(stereo, h, fd, frame, gr, 0),
                                         h, fd, frame, gr + 1)

-----------------------------------------------------------------------------
(* The stages of decode_frame on the values of a sample buffer, a function *)
(* from 0..575 to the sample values.                                       *)

\* Variant of ReorderBand: the three windows are copied in their order.
ReorderBandPlanar(samples_in, reorder_buf, i, win_len) ==
    [j \in 0..575 |-> IF j >= i /\ j < i + 3 * win_len THEN samples_in[j]
                      ELSE reorder_buf[j]]

\* for _ in 0..win_len { reorder_buf[i+0] = buf[w0]; reorder_buf[i+1] =
\* buf[w1]; reorder_buf[i+2] = buf[w2]; ... i += 3; } for the band that
\* starts at i: w0, w1 and w2 start at i, i + win_len and i + 2 * win_len.
ReorderBand(samples_in, reorder_buf, i, win_len) ==
    [j \in 0..575 |-> IF j >= i /\ j < i + 3 * win_len
                      THEN samples_in[i + ((j - i) % 3) * win_len + ((j - i) \div 3)]
                      ELSE reorder_buf[j]]

\* while i < channel.rzero { ... sfb += 1; } of l3_reorder: [reorder_buf, i].
RECURSIVE ReorderBands(_, _, _, _, _, _)
ReorderBands(sfb_bands, rzero, samples_in, reorder_buf, i, sfb) ==
    IF i < rzero
    THEN LET win_len == sfb_bands[sfb + 2] - sfb_bands[sfb + 1]
         IN  ReorderBands(sfb_bands, rzero, samples_in,
                          ReorderBand(samples_in, reorder_buf, i, win_len),
                          i + 3 * win_len, sfb + 1)
    ELSE [reorder_buf |-> reorder_buf, i |-> i]

\* l3_reorder(header, channel, buf) on the sample values.
ReorderSamples(h, channel, samples_in) ==
    IF channel.block_type # "Short" THEN samples_in
    ELSE LET sfb_bands == SCALE_FACTOR_SHORT_BANDS[h.sample_rate_idx + 1]
             sfb == IF channel.is_mixed THEN 3 ELSE 0
             start == 3 * sfb_bands[sfb + 1]
             r == ReorderBands(sfb_bands, channel.rzero, samples_in,
                               [j \in 0..575 |-> 0], start, sfb)
         IN  \* buf[start..i].copy_from_slice(&reorder_buf[start..i])
             [j \in 0..575 |-> IF j >= start /\ j < r.i THEN r.reorder_buf[j]
                               ELSE samples_in[j]]

\* Variant of InvertedIndices: the odd samples of every sub-band.
InvertedIndicesEverySubband == { j \in 0..575 : j % 2 = 1 }

\* The indices l3_frequency_inversion negates: for i in (18..576).step_by(36),
\* for j in (i..i+16).step_by(8), j + 1, j + 3, j + 5 and j + 7, and then
\* i + 18 - 1.
InvertedIndices ==
    UNION { { j + d : j \in {i, i + 8}, d \in {1, 3, 5, 7} } \cup {i + 18 - 1} :
              i \in { 18 + 36 * n : n \in 0..15 } }

\* l3_frequency_inversion(samples) on the sample values.
l3_frequency_inversion(samples_in) ==
    [j \in 0..575 |-> IF j \in InvertedIndices THEN 0 - samples_in[j]
                      ELSE samples_in[j]]

\* A sample that no requantization rule has scaled.
Unscaled == [rule |-> "none", sfb |-> 0, win |-> 0]

\* l3_requantize_long(header, channel, buf) on buf = samples lo..hi-1 of the
\* granule: sample lo + i is scaled with the scale factor of the long band sfb
\* whose start sfb_indicies[sfb] is the last at or below i.  PRE_EMPHASIS has
\* 22 entries, sfb_indicies 23 and scalefacs 39.
l3_requantize_long(h, channel, lo, hi, scaled) ==
    LET sfb_indicies == SCALE_FACTOR_LONG_BANDS[h.sample_rate_idx + 1]
        band(i) == Cardinality({ k \in 1..Len(sfb_indicies) : sfb_indicies[k] <= i }) - 1
    IN  IF \E i \in 0..(hi - lo - 1) :
              band(i) >= 22 \/ band(i) >= 39 \/ band(i) + 1 >= Len(sfb_indicies)
        THEN [err |-> "index", scaled |-> scaled]
        ELSE [err |-> "",
              scaled |-> [j \in 0..575 |->
                            IF j >= lo /\ j < hi
                            THEN [rule |-> "long", sfb |-> band(j - lo), win |-> 0]
                            ELSE scaled[j]]]

\* while i < buf.len() { ... sfb += 1; } of l3_requantize_short on buf =
\* samples lo..hi-1 of the granule, from sample lo + i and band sfb: the band
\* is scaled window by window, each window of win_len samples or of what is
\* left of buf.
RECURSIVE RequantizeShortBands(_, _, _, _, _, _)
RequantizeShortBands(sfb_indicies, lo, hi, i, sfb, scaled) ==
    IF i >= hi - lo THEN [err |-> "", scaled |-> scaled]
    ELSE IF sfb + 1 >= Len(sfb_indicies) \/ 3 * sfb + 2 >= 39
    THEN [err |-> "index", scaled |-> scaled]
    ELSE LET win_len == sfb_indicies[sfb + 2] - sfb_indicies[sfb + 1]
             end == Min(hi - lo, i + 3 * win_len)
         IN  RequantizeShortBands(sfb_indicies, lo, hi, end, sfb + 1,
                 [j \in 0..575 |->
                    IF j >= lo + i /\ j < lo + end
                    THEN [rule |-> "short", sfb |-> sfb, win |-> (j - lo - i) \div win_len]
                    ELSE scaled[j]])

\* l3_requantize_short(header, channel, sfb, buf) on buf = samples lo..hi-1.
l3_requantize_short(h, channel, sfb, lo, hi, scaled) ==
    RequantizeShortBands(SCALE_FACTOR_SHORT_BANDS[h.sample_rate_idx + 1], lo, hi, 0, sfb,
                         scaled)

\* l3_requantize(header, channel, buf): the rule and the band each sample was
\* scaled with, or the panic of a slice (buf[a..b] needs a <= b <= 576) or of
\* an index.
l3_requantize(h, channel) ==
    LET none == [j \in 0..575 |-> Unscaled]
        slice(a, b) == a <= b /\ b <= 576
    IN  IF channel.block_type = "Short" /\ ~channel.is_mixed
        THEN IF ~slice(0, channel.rzero) THEN [err |-> "slice", scaled |-> none]
             ELSE l3_requantize_short(h, channel, 0, 0, channel.rzero, none)
        ELSE IF channel.block_type = "Short"
        THEN LET long == l3_requantize_long(h, channel, 0, 36, none)
             IN  IF long.err # "" THEN long
                 ELSE IF ~slice(36, channel.rzero)
                 THEN [err |-> "slice", scaled |-> long.scaled]
                 ELSE l3_requantize_short(h, channel, 3, 36, channel.rzero, long.scaled)
        ELSE IF ~slice(0, channel.rzero) THEN [err |-> "slice", scaled |-> none]
             ELSE l3_requantize_long(h, channel, 0, channel.rzero, none)

-----------------------------------------------------------------------------
(* Inputs: the bytes the source yields.                                    *)

\* The four bytes of a frame header with the given field values.
HeaderBytes(version, layer, crc_absent, bitrate, srate, padding, private, mode, mode_ext, copyright, original, emphasis) ==
    << 255,
       224 + version * 8 + layer * 2 + crc_absent,
       bitrate * 16 + srate * 4 + padding * 2 + private,
       mode * 64 + mode_ext * 16 + copyright * 8 + original * 4 + emphasis >>

\* Two bytes that follow every header in the input: the CRC when there is one.
CrcBytes == <<171, 205>>

\* Runs of up to MaxJunk bytes that are not (by themselves) a sync word.
RECURSIVE JunkRuns(_)
JunkRuns(n) ==
    IF n = 0 THEN {<<>>}
    ELSE JunkRuns(n - 1) \cup { j \o <<b>> : j \in JunkRuns(n - 1), b \in {0, 255} }

\* Headers behind junk, with the private, copyright and original bits set,
\* and with the stream ending before, inside or after the CRC.
JunkHeaderInputs ==
    { j \o HeaderBytes(v, l, c, 9, 0, 1, 1, 1, x, 1, 1, 0) \o SubSeq(CrcBytes, 1, k) :
        j \in JunkRuns(MaxJunk), v \in {2, 3}, l \in {1, 3}, c \in 0..1,
        x \in 0..3, k \in 0..2 }
    \cup { SubSeq(<<255, 250, 144, 0>>, 1, k) : k \in 0..3 }

\* The headers of a decoding session: a few frames small enough to follow
\* through the reservoir, Layer I and II frames, and rejected headers.
SessionHeaderInputs ==
    { \* MPEG-2 Layer III, 8 kbps, 24 kHz, mono and stereo, with and without CRC
      HeaderBytes(2, 1, 1, 1, 1, 0, 0, 3, 0, 0, 0, 0) \o CrcBytes,
      HeaderBytes(2, 1, 0, 1, 1, 0, 0, 0, 0, 0, 0, 0) \o CrcBytes,
      \* MPEG-2 Layer III, 8 kbps, 22.05 kHz, joint stereo (intensity), padded
      HeaderBytes(2, 1, 1, 1, 0, 1, 0, 1, 1, 0, 0, 0) \o CrcBytes,
      \* MPEG-2.5 Layer III, 8 kbps, 12 kHz, joint stereo (mid/side)
      HeaderBytes(0, 1, 1, 1, 1, 0, 0, 1, 2, 0, 0, 0) \o CrcBytes,
      \* MPEG-1 Layer III, 32 kbps, 48 kHz, mono; joint stereo (intensity)
      HeaderBytes(3, 1, 1, 1, 1, 0, 0, 3, 0, 0, 0, 0) \o CrcBytes,
      HeaderBytes(3, 1, 1, 1, 1, 0, 0, 1, 1, 0, 0, 0) \o CrcBytes,
      \* MPEG-1 Layer II and Layer I, 64 kbps, 44.1 kHz, stereo
      HeaderBytes(3, 2, 1, 4, 0, 0, 0, 0, 0, 0, 0, 0) \o CrcBytes,
      HeaderBytes(3, 3, 1, 2, 0, 0, 0, 0, 0, 0, 0, 0) \o CrcBytes,
      \* reserved version; free bit-rate
      HeaderBytes(1, 1, 1, 1, 1, 0, 0, 3, 0, 0, 0, 0) \o CrcBytes,
      HeaderBytes(3, 1, 1, 0, 0, 0, 0, 3, 0, 0, 0, 0) \o CrcBytes,
      \* the stream ends
      <<>> }

\* The n bits of v, most significant first.
RECURSIVE BitsOf(_, _)
BitsOf(v, n) == IF n = 0 THEN <<>> ELSE BitsOf(v \div 2, n - 1) \o <<v % 2>>

B(b) == IF b THEN <<1>> ELSE <<0>>

\* Bits packed into bytes, most significant first, the last byte padded
\* with zero bits.
RECURSIVE PackBytes(_)
PackBytes(bits) ==
    IF Len(bits) = 0 THEN <<>>
    ELSE IF Len(bits) < 8 THEN PackBytes(bits \o <<0>>)
    ELSE << bits[1] * 128 + bits[2] * 64 + bits[3] * 32 + bits[4] * 16
            + bits[5] * 8 + bits[6] * 4 + bits[7] * 2 + bits[8] >>
         \o PackBytes(SubSeq(bits, 9, Len(bits)))

\* The side-info bits of one granule channel with the given field values.
ChannelBits(h, c) ==
    BitsOf(c.part2_3_length, 12) \o BitsOf(c.big_values, 9)
    \o BitsOf(c.global_gain, 8)
    \o BitsOf(c.scalefac_compress, ScalefacCompressBits(h))
    \o B(c.window_switching)
    \o (IF c.window_switching
        THEN BitsOf(c.block_type_enc, 2) \o B(c.is_mixed)
             \o BitsOf(c.table_select[1], 5) \o BitsOf(c.table_select[2], 5)
             \o BitsOf(c.subblock_gain[1], 3) \o BitsOf(c.subblock_gain[2], 3)
             \o BitsOf(c.subblock_gain[3], 3)
        ELSE BitsOf(c.table_select[1], 5) \o BitsOf(c.table_select[2], 5)
             \o BitsOf(c.table_select[3], 5)
             \o BitsOf(c.region0_count, 4) \o BitsOf(c.region0_1_count, 3))
    \o (IF is_mpeg1(h) THEN B(c.preflag) ELSE <<>>)
    \o B(c.scalefac_scale) \o B(c.count1table_select)

\* The side-info bytes of a frame: main_data_begin mdb, all private bits set,
\* SCFSI pattern scfsi (four bits), and the granule channels alternating
\* between the field values a and b.
SideInfoBytes(h, mdb, scfsi, a, b) ==
    LET slot(k) == IF ((k \div n_channels(h)) + (k % n_channels(h))) % 2 = 0
                   THEN a ELSE b
        RECURSIVE Slots(_)
        Slots(k) == IF k >= n_granules(h) * n_channels(h) THEN <<>>
                    ELSE ChannelBits(h, slot(k)) \o Slots(k + 1)
    IN  PackBytes(
            BitsOf(mdb, MainDataBeginBits(h))
            \o BitsOf(Pow2(PrivateBits(h)) - 1, PrivateBits(h))
            \o (IF is_mpeg1(h)
                THEN (IF n_channels(h) = 2 THEN BitsOf(scfsi, 4) \o BitsOf(15 - scfsi, 4)
                      ELSE BitsOf(scfsi, 4))
                ELSE <<>>)
            \o Slots(0))

\* Field values for a granule channel.
ChannelField(bv, ws, bt, mixed, r0, r1) ==
    [part2_3_length |-> 0, big_values |-> bv, global_gain |-> 210,
     scalefac_compress |-> 0, window_switching |-> ws, block_type_enc |-> bt,
     is_mixed |-> mixed, table_select |-> <<1, 16, 31>>,
     subblock_gain |-> <<1, 2, 7>>, region0_count |-> r0,
     region0_1_count |-> r1, preflag |-> TRUE, scalefac_scale |-> TRUE,
     count1table_select |-> TRUE]

\* First-channel field values: big_values around the limit, every block type.
ChannelInputsA ==
    { ChannelField(bv, FALSE, 0, FALSE, 15, 7) : bv \in {0, 288, 289, 511} }
    \cup { ChannelField(288, TRUE, bt, mixed, 0, 0) : bt \in 0..3, mixed \in BOOLEAN }

\* Second-channel field values.
ChannelInputsB ==
    { ChannelField(0, FALSE, 0, FALSE, 0, 0),
      ChannelField(300, FALSE, 0, FALSE, 0, 0),
      ChannelField(1, TRUE, 2, FALSE, 0, 0) }

\* Values of main_data_begin.
MainDataBeginInputs == {0, 1, 7, 100}

\* Side-info inputs for a frame with header h: every main_data_begin value,
\* every pair of channel field values, and the stream ending inside the
\* side info.
SideInfoInputs(h) ==
    { SideInfoBytes(h, mdb, 5, ChannelField(1, TRUE, 2, FALSE, 0, 0),
                    ChannelField(1, TRUE, 2, FALSE, 0, 0)) :
        mdb \in MainDataBeginInputs }
    \cup { SideInfoBytes(h, 0, 10, a, b) : a \in ChannelInputsA, b \in ChannelInputsB }
    \cup { SubSeq(SideInfoBytes(h, 0, 5, ChannelField(0, FALSE, 0, FALSE, 0, 0),
                                ChannelField(0, FALSE, 0, FALSE, 0, 0)), 1, k) :
             k \in {0, 2, 5} }

\* The headers read_frame_header returns on the session's header inputs.
SessionHeaders ==
    { read_frame_header(b).hdr : b \in SessionHeaderInputs } \ {NoHeader}

\* SideInfoInputs for each header of a session.
SessionSideInfoInputs == [h \in SessionHeaders |-> SideInfoInputs(h)]

\* The n main-data bytes the source yields from stream position pos on: the
\* byte at position k is k mod 256.
SourceBytes(pos, n) == [i \in 1..n |-> (pos + i - 1) % 256]

-----------------------------------------------------------------------------
(* The state machine.                                                      *)

Channel == 0..1

\* samples: [[[0f32; 576]; 2]; 2]
ZeroSamples == <<<<{}, {}>>, <<{}, {}>>>>

NewState ==
    /\ pc = "idle"
    /\ src_pos = 0
    /\ sync_word = ZeroWord
    /\ header = NoHeader
    /\ result = NoResult
    /\ crc_bytes = 0
    /\ frame_pos = 0
    /\ frame_data = DefaultFrameData
    /\ side_info_len = 0
    /\ si_bits = 0
    /\ resevoir = NewResevoir
    /\ prev_resevoir = NewResevoir
    /\ fill_pos = 0
    /\ overlap = [c \in Channel |-> ZeroOverlap]
    /\ synthesis = [c \in Channel |-> 0]
    /\ out = 0
    /\ n_frames = 0
    /\ samples = ZeroSamples
    /\ intensity = {}
    /\ hybrid = [c \in Channel |-> <<>>]
    /\ main_log = <<>>
    /\ sample_buf = <<>>

\* A decoding session on a fresh State; every read draws its bytes.
Init == NewState /\ input = {}

\* One call of read_frame_header on each input: every combination of the
\* header fields that read_frame_header examines, directly at the reader's
\* position, and the headers behind junk.
InitHeader ==
    /\ NewState
    /\ \/ \E v \in 0..3, l \in 0..3, c \in 0..1, b \in 0..15, s \in 0..3,
              p \in 0..1, m \in 0..3, x \in 0..3, e \in 0..3 :
            input = { HeaderBytes(v, l, c, b, s, p, 0, m, x, 0, 0, e) \o CrcBytes }
       \/ \E b \in JunkHeaderInputs : input = {b}

\* Where the caller stands after a call that returned res.
After(res, next) ==
    CASE res.kind = "ok" -> next
      [] res.kind \in {"decode_error", "unsupported_error"} -> "idle"
      [] res.kind = "io_error" -> "eof"
      [] OTHER -> "abort"

\* read_frame_header on a reader that yields `bytes`.
ReadFrameHeaderOn(bytes) ==
    /\ pc = "idle"
    /\ n_frames < MaxFrames
    /\ \E r \in {read_frame_header(bytes)} :
        /\ n_frames' = n_frames + 1
        /\ src_pos' = src_pos + r.n
        /\ sync_word' = r.word
        /\ header' = r.hdr
        /\ crc_bytes' = r.crc_bytes
        /\ result' = r.res
        /\ pc' = After(r.res, "header")
        /\ input' = {}
        /\ UNCHANGED <<sample_buf, samples, intensity, hybrid, main_log, frame_pos, frame_data, side_info_len, si_bits, resevoir,
                       prev_resevoir, fill_pos, overlap, synthesis, out>>

\* read_frame_header in a session.
ReadFrameHeader == \E bytes \in SessionHeaderInputs : ReadFrameHeaderOn(bytes)

\* read_frame_header on the input drawn initially.
ReadGivenHeader == \E bytes \in input : ReadFrameHeaderOn(bytes)

\* Variant of Layer3Arm: Layer II takes the Layer III arm as well.
Layer3ArmOrLayer2(h) == h.layer \in {"Layer2", "Layer3"}

\* match header.layer: TRUE for the MpegLayer::Layer3 arm, FALSE for the arm
\* that returns "Unsupported MPEG Layer."
Layer3Arm(h) == h.layer = "Layer3"

\* decode_frame, up to the choice of the decode steps by layer.
DecodeFrame ==
    /\ pc = "header"
    /\ out' = 0
    /\ frame_pos' = src_pos
    /\ frame_data' = DefaultFrameData
    /\ side_info_len' = 0
    /\ si_bits' = 0
    /\ IF Layer3Arm(header)
       THEN pc' = "side_info" /\ result' = NoResult
       ELSE /\ pc' = "idle"
            /\ result' = unsupported_error("decode_frame", "Unsupported MPEG Layer.")
    /\ UNCHANGED <<sample_buf, samples, intensity, hybrid, main_log, src_pos, sync_word, header, crc_bytes, resevoir, prev_resevoir,
                   fill_pos, overlap, synthesis, n_frames, input>>

\* decode_frame: l3_read_side_info.
ReadSideInfo ==
    /\ pc = "side_info"
    /\ \E bytes \in SessionSideInfoInputs[header] :
        \E r \in {l3_read_side_info(bytes, header)} :
         LET res == CASE r.err = ""   -> NoResult
                      [] r.err = "io" -> io_error("decode_frame")
                      [] OTHER        -> decode_error("decode_frame", r.err)
         IN  /\ si_bits' = r.p
             /\ src_pos' = src_pos + BytesFetched(r.p)
             /\ frame_data' = IF r.err = "" THEN r.fd ELSE DefaultFrameData
             /\ side_info_len' = r.side_info_len
             /\ result' = res
             /\ pc' = IF r.err = "" THEN "fill" ELSE After(res, "fill")
    /\ UNCHANGED <<sample_buf, samples, intensity, hybrid, main_log, sync_word, header, crc_bytes, frame_pos, resevoir, prev_resevoir,
                   fill_pos, overlap, synthesis, out, n_frames, input>>

\* decode_frame: state.resevoir.fill(reader, main_data_begin,
\* header.frame_size - side_info_len).  The source has the whole of the main
\* data, or has ended.
Fill ==
    /\ pc = "fill"
    /\ \E avail \in {header.frame_size - side_info_len, 0} :
        \E r \in { IF header.frame_size - side_info_len < 0
                   \* usize subtraction overflow
                   THEN [res |-> [op |-> "fill", kind |-> "panic",
                                  msg |-> "attempt to subtract with overflow"],
                         resevoir |-> resevoir, n |-> 0]
                   ELSE fill(resevoir, SourceBytes(src_pos, avail),
                             frame_data.main_data_begin,
                             header.frame_size - side_info_len) } :
             /\ prev_resevoir' = resevoir
             /\ fill_pos' = src_pos
             /\ resevoir' = r.resevoir
             /\ src_pos' = src_pos + r.n
             /\ result' = IF r.res.kind = "ok" THEN NoResult ELSE r.res
             /\ pc' = After(r.res, "main_data")
             \* frame_data is a local of decode_frame: gone when it returns
             /\ frame_data' = IF r.res.kind = "ok" THEN frame_data ELSE DefaultFrameData
    /\ UNCHANGED <<sample_buf, samples, intensity, hybrid, main_log, sync_word, header, crc_bytes, frame_pos, side_info_len,
                   si_bits, overlap, synthesis, out, n_frames, input>>

\* The codewords the Huffman reader finds in the main data of a session.
SessionCodewords == { << [value |-> 0, code_len |-> 1] >> }

\* decode_frame: l3_read_main_data.  It reads the reservoir only.
ReadMainData ==
    /\ pc = "main_data"
    /\ \E codes \in SessionCodewords, wrapping \in BOOLEAN :
        \E r \in {l3_read_main_data(header, frame_data,
                                    [bytes |-> bytes_ref(resevoir), codes |-> codes,
                                     wrapping |-> wrapping], samples)} :
            /\ result' = IF r.err = "" THEN NoResult ELSE ResultOf("decode_frame", r.err)
            /\ pc' = After(ResultOf("decode_frame", r.err), "synth")
            \* frame_data is a local of decode_frame: gone when it returns
            /\ frame_data' = IF r.err = "" THEN r.fd ELSE DefaultFrameData
            /\ samples' = r.samples
            /\ main_log' = r.log
    /\ UNCHANGED <<sample_buf, intensity, hybrid, src_pos, sync_word, header, crc_bytes, frame_pos,
                   side_info_len, si_bits, resevoir, prev_resevoir, fill_pos, overlap,
                   synthesis, out, n_frames, input>>

\* decode_frame: the loop over the granules (requantize, stereo, reorder,
\* antialias, hybrid synthesis, frequency inversion, polyphase synthesis).
Synthesize ==
    /\ pc = "synth"
    /\ \E st \in { SynthGranules([err |-> "", overlap |-> overlap,
                                   synthesis |-> synthesis, out |-> out,
                                   samples |-> samples, intensity |-> intensity,
                                   hybrid |-> hybrid],
                                  header, frame_data, n_frames, 0) } :
           /\ overlap' = st.overlap
           /\ synthesis' = st.synthesis
           /\ out' = st.out
           /\ samples' = st.samples
           /\ intensity' = st.intensity
           /\ hybrid' = st.hybrid
           /\ result' = ResultOf("decode_frame", st.err)
           /\ pc' = After(ResultOf("decode_frame", st.err), "idle")
    /\ frame_data' = DefaultFrameData
    /\ UNCHANGED <<sample_buf, main_log, src_pos, sync_word, header, crc_bytes, frame_pos,
                   side_info_len, si_bits, resevoir, prev_resevoir, fill_pos,
                   n_frames, input>>

Next ==
    \/ ReadFrameHeader
    \/ DecodeFrame
    \/ ReadSideInfo
    \/ Fill
    \/ ReadMainData
    \/ Synthesize

Spec == Init /\ [][Next]_vars

NextHeader == ReadGivenHeader

SpecHeader == InitHeader /\ [][NextHeader]_vars

-----------------------------------------------------------------------------
(* One call of read_granule_channel_side_info_l3 on each input.            *)

\* Everything of the state but pc, header, frame_data, samples and input,
\* as NewState has it.
FreshWith(p, h, fd, smp) ==
    /\ pc = p
    /\ header = h
    /\ src_pos = 0
    /\ sync_word = ZeroWord
    /\ result = NoResult
    /\ crc_bytes = 0
    /\ frame_pos = 0
    /\ frame_data = fd
    /\ side_info_len = 0
    /\ si_bits = 0
    /\ resevoir = NewResevoir
    /\ prev_resevoir = NewResevoir
    /\ fill_pos = 0
    /\ overlap = [c \in Channel |-> ZeroOverlap]
    /\ synthesis = [c \in Channel |-> 0]
    /\ out = 0
    /\ n_frames = 0
    /\ samples = smp
    /\ intensity = {}
    /\ hybrid = [c \in Channel |-> <<>>]
    /\ main_log = <<>>
    /\ sample_buf = <<>>

\* Everything of the state but pc, header and input, as NewState has it.
FreshBut(p, h) == FreshWith(p, h, DefaultFrameData, ZeroSamples)

\* The Layer III header read_frame_header returns for version bits v,
\* sample-rate bits s, channel mode bits m and mode extension bits x.
Layer3Header(v, s, m, x) ==
    read_frame_header(HeaderBytes(v, 1, 1, 8, s, 0, 0, m, x, 0, 0, 0)).hdr

\* Mono Layer III headers of every version and sample rate.
ChannelHeaders == { Layer3Header(v, s, 3, 0) : v \in {0, 2, 3}, s \in 0..2 }

\* big_values on the wire: none, within region 0, between the band edges,
\* and the largest allowed.
BigValuesInputs == {0, 1, 20, 100, 288}

\* Granule channels on the wire: every region0_count and region1_count
\* without window switching, every block type with it.
ChannelFieldInputs ==
    { ChannelField(bv, FALSE, 0, FALSE, r0, r1) :
        bv \in BigValuesInputs, r0 \in 0..15, r1 \in 0..7 }
    \cup { ChannelField(bv, TRUE, bt, mixed, 0, 0) :
             bv \in BigValuesInputs, bt \in 0..3, mixed \in BOOLEAN }

InitSideInfo ==
    \E h \in ChannelHeaders, c \in ChannelFieldInputs :
        /\ FreshBut("channel", h)
        /\ input = { PackBytes(ChannelBits(h, c)) }

\* read_granule_channel_side_info_l3 on a default GranuleChannel; the
\* channel is kept as granules[0].channels[0].
ReadGranuleChannel ==
    /\ pc = "channel"
    /\ \E bytes \in input :
        \E r \in {read_granule_channel_side_info_l3(bytes, 0, DefaultGranuleChannel, header)} :
            /\ frame_data' = [frame_data EXCEPT !.granules[1][1] = r.ch]
            /\ si_bits' = r.p
            /\ result' = CASE r.err = ""   -> Ok("read_granule_channel_side_info_l3")
                           [] r.err = "io" -> io_error("read_granule_channel_side_info_l3")
                           [] OTHER -> decode_error("read_granule_channel_side_info_l3", r.err)
    /\ pc' = "done"
    /\ UNCHANGED <<sample_buf, samples, intensity, hybrid, main_log, src_pos, sync_word, header, crc_bytes, frame_pos, side_info_len,
                   resevoir, prev_resevoir, fill_pos, overlap, synthesis, out,
                   n_frames, input>>

NextSideInfo == ReadGranuleChannel

SpecSideInfo == InitSideInfo /\ [][NextSideInfo]_vars

-----------------------------------------------------------------------------
(* One call of l3_read_huffman_samples on each input.                      *)

\* Codewords the reader finds, repeated for as long as the decoder reads:
\* the pair (1, 0) in two bits, the pair (0, 0) or the quadruple 0000 in
\* one bit, saturated pairs and full quadruples, and a mix.
CodewordInputs ==
    { << [value |-> 16, code_len |-> 2] >>,
      << [value |-> 0, code_len |-> 1] >>,
      << [value |-> 255, code_len |-> 8], [value |-> 15, code_len |-> 6] >>,
      << [value |-> 0, code_len |-> 1], [value |-> 17, code_len |-> 3],
         [value |-> 9, code_len |-> 5] >> }

\* (region1_start, region2_start): under window switching, and of the long
\* bands at 44.1 kHz with region0_count 0 and region1_count 0.
RegionStartInputs == { <<36, 576>>, <<54, 576>>, <<4, 8>> }

\* table_select: a plain table, the empty tables, tables with linbits.
TableSelectInputs == { <<1, 1, 1>>, <<0, 16, 24>>, <<23, 4, 14>> }

Part3BitsInputs == {0, 1, 2, 3, 12, 4095}

\* The bits the reader has left: a few, or more than any part3_bits.
AvailInputs == {8, 8192}

\* What the sample buffer holds from the frame before: zeros, or no zero.
StaleSamples == { {}, 0 .. 575 }

HuffmanChannels ==
    { [DefaultGranuleChannel EXCEPT !.big_values = bv,
                                    !.region1_start = r[1], !.region2_start = r[2],
                                    !.table_select = t, !.count1table_select = c1] :
        bv \in {0, 1, 3, 288}, r \in RegionStartInputs, t \in TableSelectInputs,
        c1 \in BOOLEAN }

InitHuffman ==
    \E channel \in HuffmanChannels, stale \in StaleSamples,
       part3_bits \in Part3BitsInputs, codes \in CodewordInputs,
       avail \in AvailInputs, wrapping \in BOOLEAN :
        /\ FreshWith("huffman", Layer3Header(3, 0, 3, 0),
                     [DefaultFrameData EXCEPT !.granules[1][1] = channel],
                     [ZeroSamples EXCEPT ![1][1] = stale])
        /\ input = { [part3_bits |-> part3_bits, codes |-> codes, avail |-> avail,
                      wrapping |-> wrapping] }

\* channel.rzero = l3_read_huffman_samples(bs, channel, part3_bits, buf)? on
\* granules[0].channels[0] and samples[0][0].
ReadHuffmanSamples ==
    /\ pc = "huffman"
    /\ \E bs \in input :
        \E r \in {l3_read_huffman_samples(bs, frame_data.granules[1][1], bs.part3_bits,
                                          samples[1][1])} :
            /\ samples' = [samples EXCEPT ![1][1] = r.buf]
            /\ frame_data' = IF r.err = ""
                             THEN [frame_data EXCEPT !.granules[1][1].rzero = r.rzero]
                             ELSE frame_data
            /\ result' = ResultOf("l3_read_huffman_samples", r.err)
    /\ pc' = "done"
    /\ UNCHANGED <<sample_buf, intensity, hybrid, main_log, src_pos, sync_word, header, crc_bytes, frame_pos,
                   side_info_len, si_bits, resevoir, prev_resevoir, fill_pos, overlap,
                   synthesis, out, n_frames, input>>

NextHuffman == ReadHuffmanSamples

SpecHuffman == InitHuffman /\ [][NextHuffman]_vars

-----------------------------------------------------------------------------
(* One call of l3_read_main_data on each input: the frame's side info is   *)
(* in frame_data and its main data in the reservoir.                       *)

\* Headers: MPEG-1 and MPEG-2 at the first sample rate, mono and joint
\* stereo with intensity stereo.
MainDataHeaders ==
    { Layer3Header(3, 0, 3, 0), Layer3Header(3, 0, 1, 1),
      Layer3Header(2, 0, 3, 0), Layer3Header(2, 0, 1, 1) }

\* The block types of a granule channel.
BlockTypes ==
    { [block_type |-> b, is_mixed |-> FALSE] : b \in {"Long", "Start", "End", "Short"} }
    \cup { [block_type |-> "Short", is_mixed |-> TRUE] }

\* A granule channel with the given scalefac_compress, block type and
\* part2_3_length, and no big values.
MainDataChannelOf(sfc, bt, part2_3_length) ==
    [DefaultGranuleChannel EXCEPT !.scalefac_compress = sfc,
                                  !.block_type = bt.block_type,
                                  !.is_mixed = bt.is_mixed,
                                  !.part2_3_length = part2_3_length,
                                  !.table_select = <<1, 1, 1>>]

\* SCFSI of a channel: nothing shared, everything shared, two ranges shared.
ScfsiInputs ==
    { <<FALSE, FALSE, FALSE, FALSE>>, <<TRUE, TRUE, TRUE, TRUE>>,
      <<TRUE, FALSE, FALSE, TRUE>> }

\* The channels of granule 0 of an MPEG-1 frame: long blocks with
\* scalefac_compress 15 whose 74 scale factor bits are all of the channel
\* or are followed by 6 Huffman bits, scalefac_compress 4 within 33 bits,
\* and a channel without bits.
Granule0Inputs ==
    { MainDataChannelOf(15, [block_type |-> "Long", is_mixed |-> FALSE], 74),
      MainDataChannelOf(15, [block_type |-> "Start", is_mixed |-> FALSE], 80),
      MainDataChannelOf(4, [block_type |-> "Long", is_mixed |-> FALSE], 33),
      MainDataChannelOf(0, [block_type |-> "Long", is_mixed |-> FALSE], 0) }

\* part2_3_length of the channels whose scalefac_compress is varied: no bits,
\* and more bits than the scale factors of any length take.
Part23LengthInputs == {0, 200}

\* part2_3_length of the MPEG-2 channels whose scalefac_compress is varied.
Mpeg2Part23Length == 200

\* The frame data of a frame with header h.  MPEG-1: both channels of a
\* granule have the same fields, granule 1 takes every scalefac_compress and
\* block type.  MPEG-2 and MPEG-2.5: the last channel takes every
\* scalefac_compress and block type, the channel before it has no bits.
MainDataFrames(h) ==
    IF is_mpeg1(h)
    THEN { [DefaultFrameData EXCEPT !.scfsi = <<s, s>>,
                                    !.granules = << <<g0, g0>>, <<g1, g1>> >>] :
             s \in ScfsiInputs, g0 \in Granule0Inputs,
             g1 \in { MainDataChannelOf(sfc, bt, l) :
                        sfc \in 0..15, bt \in BlockTypes, l \in Part23LengthInputs } }
    ELSE { [DefaultFrameData EXCEPT !.granules[1] =
                IF n_channels(h) = 2
                THEN <<MainDataChannelOf(0, [block_type |-> "Long", is_mixed |-> FALSE], 0), c>>
                ELSE <<c, DefaultGranuleChannel>>] :
             c \in { MainDataChannelOf(sfc, bt, Mpeg2Part23Length) :
                       sfc \in 0..511, bt \in BlockTypes } }

\* The main data in the reservoir: 64 bytes of ones, 64 bytes of a mixed
\* pattern, or three bytes only.
MainDataBytes ==
    { [i \in 1..64 |-> 255], [i \in 1..64 |-> (i * 37 + 11) % 256], <<255, 255, 255>> }

InitMainData ==
    \E h \in MainDataHeaders :
      \E fd \in MainDataFrames(h), bytes \in MainDataBytes, wrapping \in BOOLEAN :
        /\ FreshWith("main_data_call", h, fd, ZeroSamples)
        /\ input = { [bytes |-> bytes, wrapping |-> wrapping,
                      codes |-> << [value |-> 0, code_len |-> 6] >>] }

\* l3_read_main_data(&header, &mut frame_data, state) on a reservoir that
\* holds the input's bytes.
ReadMainDataCall ==
    /\ pc = "main_data_call"
    /\ \E bs \in input :
        \E r \in {l3_read_main_data(header, frame_data, bs, samples)} :
            /\ frame_data' = r.fd
            /\ samples' = r.samples
            /\ main_log' = r.log
            /\ result' = ResultOf("l3_read_main_data", r.err)
    /\ pc' = "done"
    /\ UNCHANGED <<sample_buf, intensity, hybrid, src_pos, sync_word, header, crc_bytes, frame_pos,
                   side_info_len, si_bits, resevoir, prev_resevoir, fill_pos, overlap,
                   synthesis, out, n_frames, input>>

NextMainData == ReadMainDataCall

SpecMainData == InitMainData /\ [][NextMainData]_vars

-----------------------------------------------------------------------------
(* One call of l3_stereo on each input: a granule of a two-channel frame   *)
(* whose samples are requantized.                                          *)

\* Two-channel Layer III headers of every version, sample rate, channel
\* mode and mode extension.
StereoHeaders ==
    { Layer3Header(v, s, m, x) : v \in {0, 2, 3}, s \in 0..2, m \in 0..2, x \in 0..3 }

\* rzero of channel 1: no samples, inside the first long bands, around the
\* end of the long bands of a mixed block, further up, and all samples.
RzeroInputs == {0, 2, 30, 32, 40, 100, 300, 576}

\* The scale factors of channel 1, the intensity positions of its bands:
\* position 0 in every band, or position 7 (no intensity stereo).
IsPosInputs == { [i \in 1..39 |-> 0], [i \in 1..39 |-> 7] }

\* The granules: every pair of block types, channel 0 with no or 288
\* samples before rzero.
StereoGranules ==
    { << [DefaultGranuleChannel EXCEPT !.block_type = b0.block_type,
                                       !.is_mixed = b0.is_mixed, !.rzero = r0],
         [DefaultGranuleChannel EXCEPT !.block_type = b1.block_type,
                                       !.is_mixed = b1.is_mixed, !.rzero = r1,
                                       !.scalefacs = sf] >> :
        b0 \in BlockTypes, b1 \in BlockTypes, r0 \in {0, 288}, r1 \in RzeroInputs,
        sf \in IsPosInputs }

InitStereo ==
    \E h \in StereoHeaders, granule \in StereoGranules :
        /\ FreshWith("stereo", h, [DefaultFrameData EXCEPT !.granules[1] = granule],
                     [ZeroSamples EXCEPT ![1] = << 0 .. (granule[1].rzero - 1),
                                                   0 .. (granule[2].rzero - 1) >>])
        /\ input = {}

\* l3_stereo(&header, &granule, &mut state.samples[gr])? on granule 0.
StereoCall ==
    /\ pc = "stereo"
    /\ \E r \in {StereoGranule(header, frame_data.granules[1], samples[1])} :
        /\ samples' = [samples EXCEPT ![1] = r.ch]
        /\ intensity' = r.written
        /\ result' = ResultOf("l3_stereo", r.err)
    /\ pc' = "done"
    /\ UNCHANGED <<sample_buf, hybrid, main_log, src_pos, sync_word, header, crc_bytes, frame_pos,
                   frame_data, side_info_len, si_bits, resevoir, prev_resevoir, fill_pos,
                   overlap, synthesis, out, n_frames, input>>

NextStereo == StereoCall

SpecStereo == InitStereo /\ [][NextStereo]_vars

-----------------------------------------------------------------------------
(* The stages of decode_frame that work on one sample buffer, each called  *)
(* on its own on a buffer of sample values.                                *)

\* Mono Layer III headers of every sample_rate_idx.
SampleRateHeaders == { Layer3Header(v, s, 3, 0) : v \in {0, 2, 3}, s \in 0..2 }

\* rzero: no samples, around the first short band edges, around the start of
\* the short bands of a mixed block, further up, and all samples.
ReorderRzeroInputs == {0, 1, 12, 13, 36, 37, 72, 100, 300, 575, 576}

\* Sample buffers: 576 different values, and a few values that repeat; no
\* sample is zero.
SampleBufInputs ==
    { [j \in 0..575 |-> IF j % 2 = 0 THEN j + 1 ELSE 0 - (j + 1)],
      [j \in 0..575 |-> ((j * 7) % 5) + 1] }

InitSamples ==
    \E h \in SampleRateHeaders, bt \in BlockTypes, rzero \in ReorderRzeroInputs,
       b \in SampleBufInputs :
        /\ FreshWith("samples", h,
                     [DefaultFrameData EXCEPT !.granules[1][1] =
                        [DefaultGranuleChannel EXCEPT !.block_type = bt.block_type,
                                                      !.is_mixed = bt.is_mixed,
                                                      !.rzero = rzero]],
                     ZeroSamples)
        /\ input = { [samples |-> b] }

\* What a stage on the sample buffer leaves unchanged.
SamplesUnchanged ==
    UNCHANGED <<samples, intensity, hybrid, main_log, src_pos, sync_word, header,
                crc_bytes, frame_pos, frame_data, side_info_len, si_bits, resevoir,
                prev_resevoir, fill_pos, overlap, synthesis, out, n_frames, input>>

\* l3_reorder(&header, &granule.channels[0], &mut buf) on the given buffer.
ReorderCall ==
    /\ pc = "samples"
    /\ \E i \in input :
          sample_buf' = ReorderSamples(header, frame_data.granules[1][1], i.samples)
    /\ result' = Ok("l3_reorder")
    /\ pc' = "done"
    /\ SamplesUnchanged

\* l3_frequency_inversion(&mut buf), on the given buffer and then on the
\* buffer it left.
FrequencyInversionCall ==
    /\ \/ /\ pc = "samples"
          /\ \E i \in input : sample_buf' = l3_frequency_inversion(i.samples)
          /\ pc' = "inverted"
       \/ /\ pc = "inverted"
          /\ sample_buf' = l3_frequency_inversion(sample_buf)
          /\ pc' = "inverted_twice"
    /\ result' = Ok("l3_frequency_inversion")
    /\ SamplesUnchanged

\* l3_requantize(&header, &granule.channels[0], &mut buf): the buffer is
\* left with the rule and band each of its samples was scaled with.
RequantizeCall ==
    /\ pc = "samples"
    /\ \E r \in {l3_requantize(header, frame_data.granules[1][1])} :
          /\ sample_buf' = r.scaled
          /\ result' = CASE r.err = "" -> Ok("l3_requantize")
                          [] r.err = "index" ->
                               [op |-> "l3_requantize", kind |-> "panic",
                                msg |-> "index out of bounds"]
                          [] OTHER -> ResultOf("l3_requantize", r.err)
    /\ pc' = "done"
    /\ SamplesUnchanged

NextSamples == ReorderCall \/ FrequencyInversionCall \/ RequantizeCall

SpecSamples == InitSamples /\ [][NextSamples]_vars

-----------------------------------------------------------------------------
(* One call of sync_frame on each input: a reader that yields the input's  *)
(* bytes and then ends.                                                    *)

\* Byte values: no one bit on top, eight, three (0xe0), and seven of eight.
SyncByteInputs == {0, 255, 224, 127}

\* The longest input of sync_frame.
MaxSyncLen == 6

\* The byte sequences of up to n bytes.
RECURSIVE SyncInputs(_)
SyncInputs(n) ==
    IF n = 0 THEN {<<>>}
    ELSE SyncInputs(n - 1)
         \cup { s \o <<b>> : s \in { t \in SyncInputs(n - 1) : Len(t) = n - 1 },
                             b \in SyncByteInputs }

InitSync ==
    \E b \in SyncInputs(MaxSyncLen) :
        /\ FreshBut("sync", NoHeader)
        /\ input = {b}

\* sync_frame(reader) on the given bytes.
SyncFrameCall ==
    /\ pc = "sync"
    /\ \E bytes \in input :
        \E r \in {sync_frame(bytes)} :
            /\ sync_word' = r.word
            /\ src_pos' = r.n
            /\ result' = IF r.err THEN io_error("sync_frame") ELSE Ok("sync_frame")
    /\ pc' = "done"
    /\ UNCHANGED <<sample_buf, samples, intensity, hybrid, main_log, header, crc_bytes,
                   frame_pos, frame_data, side_info_len, si_bits, resevoir,
                   prev_resevoir, fill_pos, overlap, synthesis, out, n_frames, input>>

NextSync == SyncFrameCall

SpecSync == InitSync /\ [][NextSync]_vars

-----------------------------------------------------------------------------
(* The lengths of two frames in a row: the header of each frame, its       *)
(* main_data_begin and the fill of the reservoir.  The source yields zero  *)
(* bytes only, so that the reservoir's buffer stays all zero and only its  *)
(* length changes.                                                         *)

\* The Layer III headers read_frame_header accepts: every version, CRC bit,
\* bit-rate, sample rate, padding bit and channel mode.
LengthHeaders ==
    { read_frame_header(HeaderBytes(v, 1, c, b, s, p, 0, m, 0, 0, 0, 0) \o CrcBytes).hdr :
        v \in {0, 2, 3}, c \in 0..1, b \in 1..14, s \in 0..2, p \in 0..1, m \in 0..3 }

\* The headers of the first frame: the smallest and the largest main data,
\* and the largest of MPEG-2.
FirstLengthHeaders ==
    { read_frame_header(HeaderBytes(v, 1, c, b, s, p, 0, m, 0, 0, 0, 0) \o CrcBytes).hdr :
        v \in {2, 3}, c \in {0}, b \in {1, 14}, s \in {1, 2}, p \in {1}, m \in {0, 3} }

\* Values of main_data_begin in the side info of a frame with header h: the
\* field has MainDataBeginBits(h) bits.
MainDataBeginValues(h) == {0, 1, 200, Pow2(MainDataBeginBits(h)) - 1}

InitLengths ==
    /\ FreshBut("first", NoHeader)
    /\ input = {}

\* decode_frame on the frame with header h and main_data_begin in its side
\* info, as far as the lengths go: l3_read_side_info returns the side info
\* length, fill takes frame_size - side_info_len bytes.
FrameLengths(h, main_data_begin, next) ==
    LET main_data_size == h.frame_size - SideInfoLen(h)
        r == IF main_data_size < 0
             \* usize subtraction overflow
             THEN [kind |-> "panic", len |-> resevoir.len]
             ELSE FillLength(resevoir.len, main_data_begin, main_data_size, main_data_size)
    IN  /\ header' = h
        /\ frame_data' = [DefaultFrameData EXCEPT !.main_data_begin = main_data_begin]
        /\ side_info_len' = SideInfoLen(h)
        /\ prev_resevoir' = resevoir
        /\ resevoir' = [resevoir EXCEPT !.len = r.len]
        /\ result' = [op |-> "fill", kind |-> r.kind, msg |-> ""]
        /\ n_frames' = n_frames + 1
        /\ pc' = next
        /\ UNCHANGED <<sample_buf, samples, intensity, hybrid, main_log, src_pos, sync_word,
                       crc_bytes, frame_pos, si_bits, fill_pos, overlap, synthesis, out,
                       input>>

\* The first frame on a fresh State.
FirstFrameLengths ==
    /\ pc = "first"
    /\ \E h \in FirstLengthHeaders : \E b \in MainDataBeginValues(h) :
          FrameLengths(h, b, "second")

\* The frame after it.
SecondFrameLengths ==
    /\ pc = "second"
    /\ \E h \in LengthHeaders : \E b \in MainDataBeginValues(h) :
          FrameLengths(h, b, "done")

NextLengths == FirstFrameLengths \/ SecondFrameLengths

SpecLengths == InitLengths /\ [][NextLengths]_vars

-----------------------------------------------------------------------------
(* Properties of read_frame_header, checked under SpecHeader.  The fields  *)
(* are taken from the sync word as the header lays them out on the wire.   *)

\* A call of read_frame_header that found a sync word has returned.
HeaderCallDone == result.op = "read_frame_header" /\ IsSynced(sync_word)

\* C1: for every header read_frame_header accepts, frame_size is
\* floor(coeff * bitrate / sample_rate) + padding - (2 if a CRC is present)
\* - 4, with coeff 144 for MPEG-1 and 72 for MPEG-2 and MPEG-2.5.
C1_FrameSizeFormula ==
    (HeaderCallDone /\ result.kind = "ok") =>
        header.frame_size =
            (((IF Bits(sync_word, 19, 2) = 3 THEN 144 ELSE 72) * header.bitrate)
                \div header.sample_rate)
            + Bits(sync_word, 9, 1)
            - (IF Bits(sync_word, 16, 1) = 0 THEN 2 ELSE 0)
            - 4

\* An accepted MPEG-2.5 header with padding and a CRC.
C1_Witness ==
    /\ HeaderCallDone /\ result.kind = "ok"
    /\ Bits(sync_word, 19, 2) = 0
    /\ Bits(sync_word, 9, 1) = 1
    /\ Bits(sync_word, 16, 1) = 0
    /\ crc_bytes = 2

\* The header of the worked example: MPEG-2, Layer III, stereo, 64 kbps,
\* 22.05 kHz, padding bit clear, no CRC.
C2_Header ==
    /\ HeaderCallDone /\ result.kind = "ok"
    /\ header.version = "Mpeg2" /\ header.layer = "Layer3"
    /\ header.channels.mode = "Stereo"
    /\ header.bitrate = 64000 /\ header.sample_rate = 22050
    /\ ~header.has_padding /\ header.crc = -1

\* C2 (amended): the MPEG-2 Layer III stereo header at 64 kbps and 22.05 kHz
\* without padding and without CRC has frame_size 204, that is
\* floor(72 * 64000 / 22050) - 4 = 208 - 4.
C2_FrameSize204 == C2_Header => header.frame_size = 204

\* The header of the worked example has been accepted.
C2_Witness == C2_Header /\ src_pos = 4

\* C2 as stated: the same header has frame_size 205.
C2_FrameSize205 == C2_Header => header.frame_size = 205

\* C6: read_frame_header returns a header only if the version bits are not
\* 01, the layer bits are not 00, the bit-rate index is neither 0000 nor 1111,
\* the sample-rate index is not 11 and the emphasis bits are not 10; version
\* bits 01 give the decode error 'Invalid MPEG version' whatever the other
\* fields hold.
C6_AcceptedFields ==
    HeaderCallDone =>
        /\ (result.kind = "ok") =>
              /\ header # NoHeader
              /\ Bits(sync_word, 19, 2) # 1
              /\ Bits(sync_word, 17, 2) # 0
              /\ Bits(sync_word, 12, 4) \notin {0, 15}
              /\ Bits(sync_word, 10, 2) # 3
              /\ Bits(sync_word, 0, 2) # 2
        /\ (result.kind # "ok") => header = NoHeader
        /\ (Bits(sync_word, 19, 2) = 1) =>
              result = decode_error("read_frame_header", "Invalid MPEG version.")

\* Reserved version bits in a word whose every other examined field is
\* invalid too.
C6_Witness ==
    /\ HeaderCallDone
    /\ Bits(sync_word, 19, 2) = 1
    /\ Bits(sync_word, 17, 2) = 0
    /\ Bits(sync_word, 12, 4) = 15
    /\ Bits(sync_word, 10, 2) = 3
    /\ Bits(sync_word, 0, 2) = 2
    /\ result.kind = "decode_error"

\* C7: valid version and layer bits with bit-rate index 0000 give an
\* unsupported-feature error, not a decode error, whatever the remaining
\* bits hold, and no CRC bytes are read.
C7_FreeBitrateUnsupported ==
    (/\ HeaderCallDone
     /\ Bits(sync_word, 19, 2) # 1
     /\ Bits(sync_word, 17, 2) # 0
     /\ Bits(sync_word, 12, 4) = 0) =>
        /\ result.kind = "unsupported_error"
        /\ crc_bytes = 0
        /\ header = NoHeader

\* A free bit-rate word that announces a CRC and whose sample-rate index and
\* emphasis are reserved.
C7_Witness ==
    /\ HeaderCallDone
    /\ Bits(sync_word, 19, 2) # 1
    /\ Bits(sync_word, 17, 2) # 0
    /\ Bits(sync_word, 12, 4) = 0
    /\ Bits(sync_word, 16, 1) = 0
    /\ Bits(sync_word, 10, 2) = 3
    /\ Bits(sync_word, 0, 2) = 2
    /\ result.kind = "unsupported_error"

\* C8: for Layer I and II joint stereo the intensity bound is
\* 4 * (mode_ext + 1), one of 4, 8, 12, 16.
C8_IntensityBound ==
    (/\ HeaderCallDone /\ result.kind = "ok"
     /\ header.channels.mode = "JointStereo"
     /\ header.layer \in {"Layer1", "Layer2"}) =>
        /\ header.channels.bound = 4 * (Bits(sync_word, 4, 2) + 1)
        /\ header.channels.bound \in {4, 8, 12, 16}

-----------------------------------------------------------------------------
(* Properties of decode_frame, checked under Spec.                         *)

\* The side_info length in bytes by version and channel count.
SideInfoBytesFor(h) ==
    IF h.version = "Mpeg1"
    THEN (IF h.channels.mode = "Mono" THEN 17 ELSE 32)
    ELSE (IF h.channels.mode = "Mono" THEN 9 ELSE 17)

\* C3: a successful Layer III decode_frame consumes exactly frame_size
\* bytes: the side info read is 8 * side_info_len bits (17 or 32 bytes for
\* MPEG-1 mono or two channels, 9 or 17 for MPEG-2 and MPEG-2.5) and fill
\* reads frame_size - side_info_len bytes.
C3_ConsumesFrameSize ==
    /\ (pc = "fill") =>
          /\ side_info_len = SideInfoBytesFor(header)
          /\ si_bits = 8 * side_info_len
          /\ src_pos - frame_pos = side_info_len
    /\ (pc \in {"main_data", "synth"}) =>
          src_pos - fill_pos = header.frame_size - side_info_len
    /\ (pc = "idle" /\ result = Ok("decode_frame")) =>
          src_pos - frame_pos = header.frame_size

\* A second frame decoded, MPEG-1 with two channels.
C3_Witness ==
    /\ pc = "idle" /\ result = Ok("decode_frame")
    /\ n_frames = 2
    /\ header.version = "Mpeg1" /\ header.channels.mode # "Mono"
    /\ side_info_len = 32

\* C4: after a successful fill with offset main_data_begin and size
\* main_data_size the reservoir's length is main_data_begin + main_data_size,
\* its first main_data_begin bytes are the last main_data_begin bytes of its
\* contents before the fill (also where the two ranges overlap) and the next
\* main_data_size bytes are the bytes read from the source, in order.
C4_FillContents ==
    (pc = "main_data") =>
        LET main_data_begin == frame_data.main_data_begin
            main_data_size  == header.frame_size - side_info_len
        IN  /\ resevoir.len = main_data_begin + main_data_size
            /\ \A i \in 0..(main_data_begin - 1) :
                 BufAt(resevoir.buf, i) =
                    BufAt(prev_resevoir.buf, prev_resevoir.len - main_data_begin + i)
            /\ \A i \in 0..(main_data_size - 1) :
                 BufAt(resevoir.buf, main_data_begin + i) = (fill_pos + i) % 256

\* A fill whose carried-over bytes move down by less than their number, so
\* that source and destination ranges overlap.
C4_Witness ==
    /\ pc = "main_data"
    /\ frame_data.main_data_begin > 0
    /\ prev_resevoir.len > frame_data.main_data_begin
    /\ prev_resevoir.len - frame_data.main_data_begin < frame_data.main_data_begin

\* C5: fill with main_data_begin greater than the reservoir's length returns
\* the decode error 'Invalid main_data_begin offset', reads no byte and
\* leaves the reservoir as it was; the first frame decoded on a fresh State
\* succeeds only if its main_data_begin is 0.
C5_InvalidBeginRejected ==
    /\ [][(pc = "fill" /\ frame_data.main_data_begin > resevoir.len) =>
            /\ result' = decode_error("fill", "Invalid main_data_begin offset.")
            /\ src_pos' = src_pos
            /\ resevoir' = resevoir]_vars
    /\ [][(pc = "fill" /\ pc' = "main_data" /\ n_frames = 1) =>
            frame_data.main_data_begin = 0]_vars

\* The first frame of a session carried a non-zero main_data_begin and was
\* rejected.
C5_Witness ==
    /\ pc = "idle" /\ n_frames = 1
    /\ result = decode_error("fill", "Invalid main_data_begin offset.")
    /\ resevoir = NewResevoir
    /\ src_pos = fill_pos

\* C9: decode_frame with a Layer I or Layer II header returns an
\* unsupported-feature error, reads no byte from the source and leaves the
\* reservoir, the overlap and the synthesis state as they were; only the
\* output buffer is cleared.
C9_OtherLayersUnsupported ==
    [][(pc = "header" /\ header.layer \in {"Layer1", "Layer2"}) =>
          /\ result' = unsupported_error("decode_frame", "Unsupported MPEG Layer.")
          /\ pc' = "idle"
          /\ src_pos' = src_pos
          /\ resevoir' = resevoir
          /\ overlap' = overlap
          /\ synthesis' = synthesis
          /\ out' = 0]_vars

\* A Layer II frame refused after a Layer III frame has left bytes in the
\* reservoir and samples in the synthesis state.
C9_Witness ==
    /\ pc = "idle"
    /\ result = unsupported_error("decode_frame", "Unsupported MPEG Layer.")
    /\ header.layer = "Layer2"
    /\ resevoir.len > 0
    /\ synthesis[0] > 0
    /\ out = 0

\* Bits of the side info before the first granule channel, and bits of one
\* granule channel.
SideInfoPrefixBits(h) ==
    IF h.version = "Mpeg1"
    THEN (IF h.channels.mode = "Mono" THEN 18 ELSE 20)
    ELSE (IF h.channels.mode = "Mono" THEN 9 ELSE 10)

GranuleChannelBits(h) == IF h.version = "Mpeg1" THEN 59 ELSE 63

BigValuesError == decode_error("decode_frame", "Granule big_values > 288.")

\* C10: the side-info parse returns the decode error 'Granule big_values >
\* 288' for a channel whose big_values exceeds 288 before it reads any later
\* field of that channel (it stops 12 + 9 bits into the channel), and every
\* channel of a frame whose side info was parsed has big_values <= 288.
C10_BigValuesLimit ==
    /\ (pc \in {"fill", "main_data", "synth"}) =>
          \A gr \in 1..n_granules(header), ch \in 1..n_channels(header) :
              frame_data.granules[gr][ch].big_values <= 288
    /\ (pc = "idle" /\ result = BigValuesError) =>
          \E k \in 0..(n_granules(header) * n_channels(header) - 1) :
              si_bits = SideInfoPrefixBits(header) + k * GranuleChannelBits(header) + 21

\* The error raised by the second granule channel of a frame.
C10_Witness ==
    /\ pc = "idle" /\ result = BigValuesError
    /\ si_bits = SideInfoPrefixBits(header) + GranuleChannelBits(header) + 21

-----------------------------------------------------------------------------
(* Properties of read_granule_channel_side_info_l3, checked under          *)
(* SpecSideInfo.                                                           *)

\* The channel a successful call of read_granule_channel_side_info_l3 left.
ParsedChannel == frame_data.granules[1][1]

ChannelParsed ==
    pc = "done" /\ result = Ok("read_granule_channel_side_info_l3")

\* C11: with the window-switching flag set on a frame that is not MPEG-2.5,
\* region1_start is 36 if the frame is MPEG-1 or the block type is Short
\* (mixed or not) and 54 if the frame is MPEG-2 and the block type is Start
\* or End; region2_start is 576 in every window-switching case.
C11_WindowSwitchingRegions ==
    (ChannelParsed /\ ParsedChannel.block_type # "Long") =>
        /\ ParsedChannel.region2_start = 576
        /\ (header.version # "Mpeg2p5") =>
              ParsedChannel.region1_start =
                 (IF header.version = "Mpeg1" \/ ParsedChannel.block_type = "Short"
                  THEN 36 ELSE 54)

\* C12: for every GranuleChannel a successful side-info parse produces, the
\* three Huffman region endpoints min(region1_start, 2 * big_values),
\* min(region2_start, 2 * big_values), min(576, 2 * big_values) are
\* non-decreasing and at most 576.
C12_RegionEndpointsOrdered ==
    ChannelParsed =>
        LET big_values_len == 2 * ParsedChannel.big_values
            e1 == Min(ParsedChannel.region1_start, big_values_len)
            e2 == Min(ParsedChannel.region2_start, big_values_len)
            e3 == Min(576, big_values_len)
        IN  e1 <= e2 /\ e2 <= e3 /\ e3 <= 576

\* A long-block channel whose region0_1_count runs past the last band and
\* whose big_values reach beyond region1_start.
C12_Witness ==
    /\ ChannelParsed
    /\ ParsedChannel.block_type = "Long"
    /\ ParsedChannel.region2_start = 576
    /\ ParsedChannel.region1_start > 0
    /\ 2 * ParsedChannel.big_values > ParsedChannel.region1_start


-----------------------------------------------------------------------------
(* Properties of l3_read_huffman_samples, checked under SpecHuffman.       *)

HuffmanReturnedOk == pc = "done" /\ result = Ok("l3_read_huffman_samples")

\* C13: whenever l3_read_huffman_samples returns successfully, whatever
\* part3_bits, big_values, region starts, table selections and code lengths
\* it was given and also when more bits were consumed than part3_bits, the
\* rzero it returns is within 0..576 and every sample from rzero to 575 is
\* zero.
C13_RzeroPartition ==
    HuffmanReturnedOk =>
        /\ ParsedChannel.rzero \in 0 .. 576
        /\ samples[1][1] \cap (ParsedChannel.rzero .. 575) = {}


\* The state of the decoder after the big_values loop of the call.
AfterBigValues ==
    { HuffmanRegions(bs, ParsedChannel, bs.part3_bits, HuffmanStart({}), 0) : bs \in input }

\* C29: in the big_values loop of l3_read_huffman_samples, each time a
\* codeword is about to be decoded the bits already consumed for the channel
\* (code lengths, linbits and sign bits) do not exceed part3_bits, so that
\* the budget part3_bits - bits_read passed to read_huffman never
\* underflows, for any big_values, table selection and part3_bits > 0.
C29_BudgetNeverUnderflows ==
    (pc = "done" /\ result.op = "l3_read_huffman_samples") =>
        \A bs \in input : \A st \in AfterBigValues :
            bs.part3_bits > 0 => ~st.over

\* The underflow in each build: the panic of the checked subtraction, and
\* the call that goes on with the wrapped budget.
C29_UnderflowPanics ==
    (pc = "done" /\ result.op = "l3_read_huffman_samples") =>
        \A bs \in input : \A st \in AfterBigValues :
            (bs.part3_bits > 0 /\ st.over /\ ~bs.wrapping) => result.kind = "panic"

C29_UnderflowWraps ==
    /\ pc = "done" /\ result = Ok("l3_read_huffman_samples")
    /\ \E bs \in input : \E st \in AfterBigValues :
          bs.part3_bits = 2 /\ st.over /\ bs.wrapping
-----------------------------------------------------------------------------
(* Properties of l3_read_main_data and of the scale factor readers,        *)
(* checked under SpecMainData.                                             *)

\* The channels whose scale factors the call has read.
ScaleFactorsRead == { <<main_log[k].gr, main_log[k].ch>> : k \in 1..Len(main_log) }

\* The entry of the log for granule gr, channel ch.
LogOf(gr, ch) ==
    CHOOSE e \in { main_log[k] : k \in 1..Len(main_log) } : e.gr = gr /\ e.ch = ch

\* The bits scale factors of lengths (slen1, slen2) take in the ranges
\* that granule 1 does not share with granule 0.
UnsharedBits(scfsi, slen1, slen2) ==
    (IF scfsi[1] THEN 0 ELSE 6 * slen1) + (IF scfsi[2] THEN 0 ELSE 5 * slen1)
    + (IF scfsi[3] THEN 0 ELSE 5 * slen2) + (IF scfsi[4] THEN 0 ELSE 5 * slen2)

\* C14: in an MPEG-1 frame, for a channel whose granule-1 block type is
\* Long, Start or End and each of the band ranges [0,6), [6,11), [11,16),
\* [16,21) whose SCFSI flag is set, granule 1's scale factors in the range
\* equal granule 0's and no bits are consumed for the range, whatever
\* scalefac_compress granule 1 declares.
C14_ScfsiSharesScaleFactors ==
    \A ch \in Channel :
        (/\ pc = "done" /\ is_mpeg1(header)
         /\ <<1, ch>> \in ScaleFactorsRead
         /\ frame_data.granules[2][ch + 1].block_type # "Short") =>
            LET g0 == frame_data.granules[1][ch + 1]
                g1 == frame_data.granules[2][ch + 1]
                scfsi == frame_data.scfsi[ch + 1]
                slen == SCALE_FACTOR_SLEN[g1.scalefac_compress + 1]
            IN  /\ \A i \in 1..4 :
                     scfsi[i] =>
                        \A sfb \in SCALE_FACTOR_BANDS[i][1] .. SCALE_FACTOR_BANDS[i][2] - 1 :
                            g1.scalefacs[sfb + 1] = g0.scalefacs[sfb + 1]
                /\ LogOf(1, ch).part2_len = UnsharedBits(scfsi, slen[1], slen[2])

\* The channels of MPEG-2 and MPEG-2.5 frames that are decoded with the
\* intensity-stereo sub-tables.
IntensityTableChannel(ch) == ~is_mpeg1(header) /\ ch > 0 /\ is_intensity_stereo(header)

\* C15: every decoded scale factor is at most 15 in MPEG-1 frames (all 16
\* scalefac_compress values) and in MPEG-2/2.5 channels decoded with the
\* ordinary sub-tables (scalefac_compress 0..511), and at most 31 in
\* MPEG-2/2.5 channels decoded with the intensity-stereo sub-tables, for
\* every block type.
C15_ScaleFactorBounds ==
    \A gr \in 0..1, ch \in Channel :
        \A sfb \in 1..39 :
            frame_data.granules[gr + 1][ch + 1].scalefacs[sfb]
                <= (IF IntensityTableChannel(ch) THEN 31 ELSE 15)

\* A mixed short block of an intensity-stereo channel was decoded with a
\* scale factor of 31, and a scale factor of 15 next to it.
C15_Witness ==
    /\ pc = "done" /\ IntensityTableChannel(1)
    /\ <<0, 1>> \in ScaleFactorsRead
    /\ frame_data.granules[1][2].block_type = "Short"
    /\ frame_data.granules[1][2].is_mixed
    /\ \E sfb \in 1..39 : frame_data.granules[1][2].scalefacs[sfb] = 31
    /\ \E sfb \in 1..39 : frame_data.granules[1][2].scalefacs[sfb] = 15

\* The call of l3_read_main_data has returned.
MainDataCallDone == pc = "done" /\ result.op = "l3_read_main_data"

\* C16: if the scale factors of a channel took more bits than its
\* part2_3_length (part2_len > part2_3_length), l3_read_main_data returns a
\* decode error before any Huffman decoding of that channel; otherwise the
\* Huffman decoder is given part3_bits = part2_3_length - part2_len, which
\* is not negative.
C16_Part2WithinPart23 ==
    MainDataCallDone =>
        \A k \in 1..Len(main_log) :
            LET e == main_log[k]
                part2_3_length == frame_data.granules[e.gr + 1][e.ch + 1].part2_3_length
            IN  IF e.part2_len > part2_3_length
                THEN /\ ~e.huffman
                     /\ k = Len(main_log)
                     /\ result = decode_error("l3_read_main_data",
                                              "part2_3_length is not valid")
                ELSE /\ e.huffman
                     /\ e.part3_bits = part2_3_length - e.part2_len
                     /\ e.part3_bits >= 0

\* A frame whose first channel was Huffman decoded with bits left after its
\* scale factors, and whose second channel was rejected because its scale
\* factors took more than part2_3_length.
C16_Witness ==
    /\ MainDataCallDone /\ Len(main_log) = 2
    /\ main_log[1].huffman /\ main_log[1].part3_bits > 0 /\ main_log[1].part2_len > 0
    /\ ~main_log[2].huffman
    /\ main_log[2].part2_len > frame_data.granules[main_log[2].gr + 1][main_log[2].ch + 1].part2_3_length
    /\ result.kind = "decode_error"

\* C25: l3_read_main_data takes the channels in granule-major,
\* channel-minor order, and the decoding of part2 and part3 of a channel
\* starts at the bit of the reservoir given by the sum of part2_3_length over
\* the channels before it in that order (0 for the first), however many
\* bits the Huffman decoder of those channels consumed.
C25_Part23Begin ==
    MainDataCallDone =>
        \A k \in 1..Len(main_log) :
            LET RECURSIVE SumBefore(_)
                SumBefore(j) ==
                    IF j = 0 THEN 0
                    ELSE SumBefore(j - 1)
                         + frame_data.granules[((j - 1) \div n_channels(header)) + 1]
                                              [((j - 1) % n_channels(header)) + 1].part2_3_length
            IN  /\ main_log[k].gr = (k - 1) \div n_channels(header)
                /\ main_log[k].ch = (k - 1) % n_channels(header)
                /\ main_log[k].begin = SumBefore(k - 1)

\* The four channels of an MPEG-1 frame were taken; the Huffman decoder of
\* the third, whose codewords have six bits each, overran its part3_bits,
\* and the fourth started inside a byte.
C25_Witness ==
    /\ MainDataCallDone /\ Len(main_log) = 4
    /\ main_log[3].huffman
    /\ main_log[3].part3_bits > 0 /\ main_log[3].part3_bits % 6 # 0
    /\ \A bs \in input : \A c \in 1..Len(bs.codes) : bs.codes[c].code_len = 6
    /\ main_log[4].begin % 8 # 0
    /\ main_log[4].begin > main_log[3].begin

-----------------------------------------------------------------------------
(* Properties of l3_stereo, checked under SpecStereo.                      *)

StereoCallDone == pc = "done" /\ result.op = "l3_stereo"

\* The block types of the two channels of the granule differ; mixed and
\* non-mixed short blocks are different block types.
BlockTypesDiffer ==
    \/ frame_data.granules[1][1].block_type # frame_data.granules[1][2].block_type
    \/ frame_data.granules[1][1].is_mixed # frame_data.granules[1][2].is_mixed

\* C17: l3_stereo returns the decode error 'stereo channel pair block_type
\* mismatch' exactly when the header is joint stereo with the intensity flag
\* set and the block types of the two channels differ (mixed and non-mixed
\* short blocks differ); with the intensity flag clear, or in Stereo or
\* DualMono mode, a mismatch is not an error.
C17_BlockTypeMismatch ==
    StereoCallDone =>
        /\ (result = decode_error("l3_stereo", "stereo channel pair block_type mismatch"))
             <=> (/\ header.channels.mode = "JointStereo"
                  /\ header.channels.intensity
                  /\ BlockTypesDiffer)
        /\ (~(header.channels.mode = "JointStereo" /\ header.channels.intensity))
             => result = Ok("l3_stereo")

\* The mismatch of a mixed and a non-mixed short block was rejected under
\* intensity stereo.
C17_Witness ==
    /\ StereoCallDone
    /\ result.kind = "decode_error"
    /\ frame_data.granules[1][1].block_type = "Short"
    /\ frame_data.granules[1][2].block_type = "Short"
    /\ header.channels.intensity

\* A mismatch was accepted in a joint stereo frame without intensity stereo.
C17_WitnessAccepted ==
    /\ StereoCallDone /\ result.kind = "ok" /\ BlockTypesDiffer
    /\ header.channels.mode = "JointStereo"

\* C18: for every block type of channel 1, every sample-rate index and
\* every ch1.rzero within 0..576, each sample index written by the
\* intensity stereo processing is at or above ch1.rzero.
C18_IntensityAboveRzero ==
    (StereoCallDone /\ result.kind = "ok") =>
        \A i \in intensity : i >= frame_data.granules[1][2].rzero

\* The runs of the intensity stereo processing of the call.
IntensityRuns == IntensityBands(header, frame_data.granules[1])

\* C30: within one granule, intensity stereo processing multiplies each
\* sample index of channel 0 by a left ratio at most once: for Short mixed
\* blocks the sample ranges covered by the long bands [start, 8) and by the
\* short bands from sfb 3 are disjoint for every sample-rate index, and no
\* band is visited twice for any block type.
C30_RatioAppliedOnce ==
    (StereoCallDone /\ result.kind = "ok" /\ StereoIntensity(header)) =>
        \A r \in IntensityRuns : \A q \in IntensityRuns :
            r # q => (r.last < q.first \/ q.last < r.first)

\* Outside mixed blocks of MPEG-2 and MPEG-2.5 no sample is in two runs.
C30_OnceOutsideMpeg2Mixed ==
    (/\ StereoCallDone /\ result.kind = "ok" /\ StereoIntensity(header)
     /\ \/ is_mpeg1(header)
        \/ ~(frame_data.granules[1][2].block_type = "Short"
             /\ frame_data.granules[1][2].is_mixed)) =>
        \A r \in IntensityRuns : \A q \in IntensityRuns :
            r # q => (r.last < q.first \/ q.last < r.first)

\* A mixed block in which the long bands 6 and 7 and the short bands from
\* band 3 were processed: the samples 36 .. 53 are in two runs.
C30_TwiceInMixed ==
    /\ StereoCallDone /\ result.kind = "ok" /\ StereoIntensity(header)
    /\ header.sample_rate_idx = 3
    /\ \E r \in IntensityRuns : r.blocks = "long" /\ r.sfb = 7 /\ r.last = 53
    /\ \E q \in IntensityRuns : q.blocks = "short" /\ q.sfb = 3 /\ q.first = 36
    /\ 36 \in intensity
-----------------------------------------------------------------------------
(* The granule loop of decode_frame on silence frames, and the overlap     *)
(* store across granules and frames (specification Spec).                  *)

\* The frame being decoded is MPEG-1 and every channel of every granule has
\* part2_3_length = 0 and scalefac_compress = 0.
SilenceFrame ==
    /\ is_mpeg1(header)
    /\ \A gr \in 1..2, ch \in 1..n_channels(header) :
          /\ frame_data.granules[gr][ch].part2_3_length = 0
          /\ frame_data.granules[gr][ch].scalefac_compress = 0

\* The frame being decoded is the first of the session, or the second after
\* a first MPEG-1 frame that was decoded.
FirstTwoFrames ==
    \/ n_frames = 1
    \/ /\ n_frames = 2
       /\ result = NoResult
       /\ Len(hybrid[0]) = 2
       /\ hybrid[0][2].granule = <<1, 1>>

\* l3_stereo accepts the block types of every granule of the frame.
StereoAccepts ==
    header.channels.mode # "Mono" =>
        \A gr \in 1..n_granules(header) : l3_stereo(header, frame_data.granules[gr]) = ""

\* C19: from a fresh State, decoding two consecutive MPEG-1 frames in which
\* every channel of every granule has part2_3_length = 0 and
\* scalefac_compress = 0 succeeds whatever block type the side info declares,
\* hands an all-zero block to the polyphase synthesis for every granule and
\* channel, leaves the overlap store all zero, and leaves the reservoir with
\* main_data_begin + frame_size - side_info_len bytes.  The frames l3_stereo
\* rejects for their block types (C17) are left aside.
C19_SilenceFramesDecode ==
    [][(pc = "synth" /\ SilenceFrame /\ FirstTwoFrames /\ StereoAccepts) =>
          /\ result' = Ok("decode_frame")
          /\ \A c \in 0..(n_channels(header) - 1) :
                /\ Len(hybrid'[c]) = Len(hybrid[c]) + 2
                /\ \A k \in 1..Len(hybrid'[c]) : hybrid'[c][k].zero
          /\ \A c \in Channel : overlap'[c].zero
          /\ resevoir'.len = frame_data.main_data_begin + header.frame_size - side_info_len]_vars

\* C20: the overlap store read when a granule of channel c is synthesised is
\* the upper half of the IMDCT output of the previous granule synthesised for
\* channel c, all zero for the first one; the store of channel c is written
\* only by channel c's own synthesis and is carried unchanged from the last
\* granule of a frame to the first granule of the next.
C20_OverlapCarried ==
    \A c \in Channel :
        /\ \A k \in 1..Len(hybrid[c]) :
              /\ hybrid[c][k].overlap_out.granule = hybrid[c][k].granule
              /\ hybrid[c][k].overlap_in =
                    IF k = 1 THEN ZeroOverlap ELSE hybrid[c][k - 1].overlap_out
        /\ overlap[c] = IF hybrid[c] = <<>> THEN ZeroOverlap
                        ELSE hybrid[c][Len(hybrid[c])].overlap_out

\* Two stereo MPEG-1 frames decoded: the first granule of the second frame
\* read, for the second channel, the overlap the last granule of the first
\* frame left.
C20_Witness ==
    /\ pc = "idle" /\ result = Ok("decode_frame") /\ n_frames = 2
    /\ Len(hybrid[1]) = 4
    /\ hybrid[1][3].granule = <<2, 0>>
    /\ hybrid[1][3].overlap_in.granule = <<1, 1>>
    /\ overlap[0].granule = <<2, 1>>

-----------------------------------------------------------------------------
(* The output buffer of decode_frame (specification Spec).                 *)

\* The entries of the log of channel c made for the frame being decoded.
FrameEntries(c) ==
    { k \in 1..Len(hybrid[c]) : hybrid[c][k].granule[1] = n_frames }

\* C21: a successful decode_frame has cleared the output buffer, reserved 576
\* frames once per granule and handed the polyphase synthesis, for channel ch
\* and granule g, the output slice [576 g, 576 (g + 1)) of channel ch, which
\* the buffer then holds; the output holds n_granules * 576 samples per
\* channel (1152 for MPEG-1, 576 for MPEG-2 and MPEG-2.5), for one channel
\* if the header is Mono and for two otherwise.
C21_OutputSlices ==
    (pc = "idle" /\ result = Ok("decode_frame")) =>
        /\ out = n_granules(header) * 576
        /\ out = IF header.version = "Mpeg1" THEN 1152 ELSE 576
        /\ \A c \in Channel :
              IF c < (IF header.channels.mode = "Mono" THEN 1 ELSE 2)
              THEN /\ Cardinality(FrameEntries(c)) = n_granules(header)
                   /\ \A g \in 0..(n_granules(header) - 1) :
                         \E k \in FrameEntries(c) :
                            /\ hybrid[c][k].granule = <<n_frames, g>>
                            /\ hybrid[c][k].out_slice = <<576 * g, 576 * (g + 1)>>
                            /\ hybrid[c][k].out_len = 576 * (g + 1)
              ELSE FrameEntries(c) = {}

\* A second MPEG-1 stereo frame decoded after a first frame: the slices of
\* its second granule start at 576.
C21_Witness ==
    /\ pc = "idle" /\ result = Ok("decode_frame") /\ n_frames = 2
    /\ header.version = "Mpeg1" /\ header.channels.mode # "Mono"
    /\ Len(hybrid[1]) >= 2
    /\ hybrid[1][Len(hybrid[1])].out_slice = <<576, 1152>>
    /\ out = 1152

\* An MPEG-2 mono frame decoded: one granule, one channel.
C21_WitnessMono ==
    /\ pc = "idle" /\ result = Ok("decode_frame")
    /\ header.version # "Mpeg1" /\ header.channels.mode = "Mono"
    /\ out = 576

-----------------------------------------------------------------------------
(* Properties of the stages on one sample buffer, checked under            *)
(* SpecSamples.                                                            *)

\* The buffer the stage was given.
SamplesIn == (CHOOSE i \in input : TRUE).samples

\* The values of a buffer.
ValuesOf(b) == { b[j] : j \in 0..575 }

\* Two buffers hold the same values the same number of times: they hold
\* the same values, and either 576 of them, each once, or each value at as
\* many indices of the one as of the other.
SameMultiset(a, b) ==
    /\ ValuesOf(a) = ValuesOf(b)
    /\ \/ Cardinality(ValuesOf(a)) = 576
       \/ \A v \in ValuesOf(a) :
             Cardinality({ j \in 0..575 : a[j] = v })
                = Cardinality({ j \in 0..575 : b[j] = v })

\* The short bands l3_reorder is to interleave: those from sfb 0, or from
\* sfb 3 for a mixed block, that start below rzero.
BandsBelowRzero ==
    LET channel == frame_data.granules[1][1]
        bands == SCALE_FACTOR_SHORT_BANDS[header.sample_rate_idx + 1]
    IN  { sfb \in (IF channel.is_mixed THEN 3 ELSE 0) .. 12 :
            3 * bands[sfb + 1] < channel.rzero }

\* C22: for a Short block with rzero <= 576 l3_reorder permutes the samples:
\* for every short band (from sfb 0, or sfb 3 for a mixed block) of window
\* length W that starts at sample b < rzero, output[b + 3k + w] =
\* input[b + w W + k] for w in 0..2 and k in 0..W-1; every other sample, and
\* every sample of a block that is not Short, is unchanged; the values are
\* the same multiset before and after.
C22_ReorderPermutes ==
    (pc = "done" /\ result.op = "l3_reorder") =>
        LET channel == frame_data.granules[1][1]
            bands == SCALE_FACTOR_SHORT_BANDS[header.sample_rate_idx + 1]
            covered == UNION { (3 * bands[sfb + 1]) .. (3 * bands[sfb + 2] - 1) :
                                 sfb \in BandsBelowRzero }
        IN  /\ IF channel.block_type = "Short"
               THEN /\ \A sfb \in BandsBelowRzero :
                          LET b == 3 * bands[sfb + 1]
                              W == bands[sfb + 2] - bands[sfb + 1]
                          IN  \A w \in 0..2, k \in 0..(W - 1) :
                                 sample_buf[b + 3 * k + w] = SamplesIn[b + w * W + k]
                    /\ \A j \in (0..575) \ covered : sample_buf[j] = SamplesIn[j]
               ELSE sample_buf = SamplesIn
            /\ SameMultiset(sample_buf, SamplesIn)

\* A mixed short block whose rzero lies inside a short band was reordered:
\* samples moved, and the band rzero falls in was interleaved to its end.
C22_Witness ==
    /\ pc = "done" /\ result.op = "l3_reorder"
    /\ frame_data.granules[1][1].block_type = "Short"
    /\ frame_data.granules[1][1].is_mixed
    /\ frame_data.granules[1][1].rzero = 100
    /\ sample_buf # SamplesIn
    /\ Cardinality(ValuesOf(SamplesIn)) = 576

\* C23: l3_frequency_inversion negates exactly the samples at the indices i
\* of 0..575 for which i div 18 is odd and i mod 18 is odd (nine samples in
\* each of the 16 odd sub-bands), leaves every other sample unchanged, and
\* applied twice restores the 576 samples.
C23_FrequencyInversion ==
    /\ (pc = "inverted") =>
          /\ \A i \in 0..575 :
                sample_buf[i] = IF (i \div 18) % 2 = 1 /\ (i % 18) % 2 = 1
                                THEN 0 - SamplesIn[i] ELSE SamplesIn[i]
          /\ \A sb \in 0..31 :
                Cardinality({ i \in (18 * sb) .. (18 * sb + 17) :
                                sample_buf[i] # SamplesIn[i] })
                   = IF sb % 2 = 1 THEN 9 ELSE 0
    /\ (pc = "inverted_twice") => sample_buf = SamplesIn

\* The inversion was applied twice to a buffer it changes.
C23_Witness ==
    /\ pc = "inverted_twice"
    /\ l3_frequency_inversion(sample_buf) # sample_buf
    /\ Cardinality(ValuesOf(SamplesIn)) = 576

\* C27: for a Short mixed block l3_requantize scales the samples 0..35 with
\* the long-band rule from sfb 0 on and the samples 36..rzero-1 with the
\* short-band rule from sfb 3 on, and it completes, every slice bound,
\* band-table index and scale-factor index in range, for every rzero in
\* 0..576 and every sample-rate index 0..8.
C27_MixedRequantize ==
    (/\ pc = "done" /\ result.op = "l3_requantize"
     /\ frame_data.granules[1][1].block_type = "Short"
     /\ frame_data.granules[1][1].is_mixed
     /\ frame_data.granules[1][1].rzero \in 0..576
     /\ header.sample_rate_idx \in 0..8) =>
        /\ result = Ok("l3_requantize")
        /\ \A j \in 0..35 : sample_buf[j].rule = "long"
        /\ sample_buf[0].sfb = 0
        /\ \A j \in 36..(frame_data.granules[1][1].rzero - 1) : sample_buf[j].rule = "short"
        /\ frame_data.granules[1][1].rzero > 36 => sample_buf[36].sfb = 3
        /\ \A j \in Max(36, frame_data.granules[1][1].rzero)..575 : sample_buf[j].rule = "none"

\* RequantizePanics tells when l3_requantize panics.
RequantizePanicsAgrees ==
    (pc = "done" /\ result.op = "l3_requantize") =>
        (RequantizePanics(header, frame_data.granules[1][1]) <=> result.kind = "panic")

-----------------------------------------------------------------------------
(* Properties of sync_frame, checked under SpecSync.                       *)

\* The bytes in front of the reader.
SyncBytes == CHOOSE b \in input : TRUE

\* The last four bytes consumed once m bytes are consumed.
LastFour(m) == SubSeq(SyncBytes, m - 3, m)

\* The top 11 bits of the big-endian word of four bytes are all ones.
TopElevenOnes(w) == (w[1] * 256 + w[2]) \div 32 = 2047

\* C26: sync_frame consumes the source's bytes one at a time and returns at
\* the earliest point, after at least four bytes, at which the last four
\* bytes consumed have their top 11 bits all ones, returning those four
\* bytes; it never returns another word, and on a source that ends before
\* such a point it returns the source's error.
C26_SyncEarliest ==
    (pc = "done" /\ result.op = "sync_frame") =>
        IF result.kind = "ok"
        THEN /\ src_pos >= 4 /\ src_pos <= Len(SyncBytes)
             /\ sync_word = LastFour(src_pos)
             /\ TopElevenOnes(sync_word)
             /\ \A m \in 4..(src_pos - 1) : ~TopElevenOnes(LastFour(m))
        ELSE /\ result = io_error("sync_frame")
             /\ src_pos = Len(SyncBytes)
             /\ \A m \in 4..Len(SyncBytes) : ~TopElevenOnes(LastFour(m))

\* A sync word found behind one other byte: the word is bytes 2 to 5, and
\* the search went on after ff e0 were the last two of three bytes consumed.
C26_Witness ==
    /\ pc = "done" /\ result = Ok("sync_frame")
    /\ src_pos = 5
    /\ SyncBytes[1] = 127
    /\ sync_word[1] = 255 /\ sync_word[2] = 224
    /\ Len(SyncBytes) = 6

\* The source ended with ff e0 as its last bytes, fewer than four behind.
C26_WitnessEnd ==
    /\ pc = "done" /\ result = io_error("sync_frame")
    /\ Len(SyncBytes) = 6
    /\ SubSeq(SyncBytes, 5, 6) = <<255, 224>>

-----------------------------------------------------------------------------
(* Properties of the reservoir's length, checked under SpecLengths and     *)
(* Spec.                                                                   *)

\* C28: for Layer III frames whose headers read_frame_header accepted and
\* values of main_data_begin that pass the check of the reservoir,
\* frame_size - side_info_len is never negative and main_data_begin +
\* (frame_size - side_info_len) never exceeds 2048, so that the reservoir's
\* valid length stays within its buffer of 2048 bytes.
C28_ReservoirWithinBuffer ==
    (pc \in {"second", "done"}) =>
        /\ header.frame_size - side_info_len >= 0
        /\ result.kind # "decode_error" =>
              /\ frame_data.main_data_begin
                    + (header.frame_size - side_info_len) <= 2048
              /\ result.kind = "ok"
              /\ resevoir.len
                    = frame_data.main_data_begin + (header.frame_size - side_info_len)
        /\ resevoir.len <= 2048

\* The largest main data behind the largest main_data_begin: MPEG-1,
\* 320 kbit/s, 32 kHz, padded, mono, 511 bytes kept of the frame before.
C28_Witness ==
    /\ pc = "done" /\ result.kind = "ok"
    /\ frame_data.main_data_begin = 511
    /\ header.frame_size = 1437
    /\ side_info_len = 17
    /\ resevoir.len = 1931

\* The smallest main data: one byte.
C28_WitnessSmall ==
    /\ pc = "done" /\ result.kind = "ok"
    /\ header.frame_size - side_info_len = 1

\* FillLength gives the result and the length of fill (checked under Spec).
FillLengthAgrees ==
    [][(pc = "fill" /\ header.frame_size - side_info_len >= 0 /\ pc' # "eof") =>
          LET r == FillLength(resevoir.len, frame_data.main_data_begin,
                              header.frame_size - side_info_len,
                              header.frame_size - side_info_len)
          IN  /\ resevoir'.len = r.len
              /\ r.kind = "ok" <=> pc' = "main_data"]_vars

=============================================================================
